---- MODULE Spec2Model ----
(***************************************************************************)
(* Collaborative field synchronisation, project activation, membership and *)
(* invite protocol of src/scripts/main.js (the variant starting at line    *)
(* 442), as a state machine.                                               *)
(*                                                                         *)
(* The remote store (Firestore) is shared state: projects, members and     *)
(* invites.  Each browser session is a client record cl[c] holding the     *)
(* module-level variables of main.js under their own names, the session's  *)
(* local storage, its live snapshot listeners and its suspended async      *)
(* functions.  JavaScript runs each handler to completion, so one action   *)
(* is one synchronous block: from an event or the resumption of an await   *)
(* up to the next await.  A remote operation takes effect in the store at  *)
(* the step that resumes its await; its arguments are the ones evaluated   *)
(* when it was issued, kept in the task record.  The write of a handler    *)
(* that only reports after its await (invite creation, revoke, dismiss) is *)
(* applied in the step of the click.  A session runs at most one           *)
(* initialisation and one acceptInvite at a time.                          *)
(***************************************************************************)
EXTENDS Integers, Sequences, FiniteSets, TLC

VARIABLES
    cl,        \* client sessions: module variables, local storage, listeners, tasks
    projects,  \* collection projects: id -> document (exists = FALSE: none)
    members,   \* sub-collection projects/{id}/members: id -> uid -> role or Null
    invites,   \* collection projectInvites: id -> document (exists = FALSE: none)
    now,       \* wall clock (Date.now()), in milliseconds
    userActions  \* history: the number of user actions so far

vars == <<cl, projects, members, invites, now, userActions>>

----------------------------------------------------------------------------
(* Bounds and value sets *)

Null == "null"

Clients == {"c1", "c2"}
Users == {"u1", "u2"}

\* the first two entries of fieldIds; the remaining twelve are handled alike
FieldIds == {"problem", "solution"}
Values == {"", "A", "B"}
BlankFields == [f \in FieldIds |-> ""]

MaxUserActions == 3
MaxInvites == MaxUserActions + 1
InviteIds == 1..MaxInvites

Roles == {"owner", "editor", "viewer"}
Pending == "pending"
TerminalStatuses == {"accepted", "revoked", "dismissed"}

\* user.email as the identity provider reports it
EmailOf(u) == IF u = "u1" THEN "u1@x.de" ELSE "U2@x.de"

\* raw contents of the inviteEmail input
RawEmails == {"u1@x.de", " U2@X.DE ", "  "}
\* raw contents of the inviteRole select
RawRoles == {"viewer"}

\* String.prototype.trim().toLowerCase() on the strings that occur
TrimLower(e) ==
    CASE e = "u1@x.de" -> "u1@x.de"
      [] e = " U2@X.DE " -> "u2@x.de"
      [] e = "U2@x.de" -> "u2@x.de"
      [] e = "u2@x.de" -> "u2@x.de"
      [] OTHER -> ""

\* `${user.uid}-personal`
PersonalId(u) == u \o "-personal"
ProjectIds == {PersonalId(u) : u \in Users}

----------------------------------------------------------------------------
(* Suspended async functions *)

Slots == {"init", "accept"}

IdleTask ==
    [pc |-> "idle", origin |-> Null, ret |-> Null, user |-> Null, pid |-> Null,
     uid |-> Null, role |-> Null, ownerId |-> Null, inv |-> 0,
     fields |-> BlankFields]

----------------------------------------------------------------------------
(* Snapshot listeners (onSnapshot) *)

NoListener == 0

\* the handle onSnapshot returns: the smallest number no live listener of the
\* kind carries
NewListenerId(s, kind) ==
    CHOOSE n \in 1..(Cardinality(s.live) + 1) :
        \A l \in s.live : l.kind = kind => l.id # n

\* calling the unsubscribe function `h` of a listener of `kind` (no effect when
\* h is null)
Unsubscribe(s, kind, h) ==
    [s EXCEPT !.live = {l \in @ : ~(l.kind = kind /\ l.id = h)}]

\* onSnapshot(ref, callback): the listener is live and owes its first snapshot
OnSnapshot(s, kind, key) ==
    [s EXCEPT !.live = @ \cup {[id |-> NewListenerId(s, kind), kind |-> kind,
                                 key |-> key, dirty |-> TRUE]}]

\* the store notifies the live listeners of `kind` on `key` of a change
Notify(s, kind, key) ==
    [s EXCEPT !.live = {IF l.kind = kind /\ l.key = key
                        THEN [l EXCEPT !.dirty = TRUE] ELSE l : l \in @}]

NotifyAll(kind, key) == [c \in Clients |-> Notify(cl[c], kind, key)]

NotifyInvite(m, inv) ==
    [c \in Clients |->
        Notify(Notify(m[c], "pending", inv.projectId), "incoming", inv.invitedEmail)]

MarkDelivered(s, l) ==
    [s EXCEPT !.live = (@ \ {l}) \cup {[l EXCEPT !.dirty = FALSE]}]

LiveOf(s, kind) == {l \in s.live : l.kind = kind}

----------------------------------------------------------------------------
(* Client session: the module-level state of main.js *)

NoTimer == -1
EmptyUpdates == [f \in {} |-> ""]
GuestScope == "guest"

InitClient ==
    [currentUser |-> Null,
     projectDocRef |-> Null,
     unsubscribeProject |-> NoListener,
     unsubscribeMembers |-> NoListener,
     unsubscribePendingInvites |-> NoListener,
     unsubscribeIncomingInvites |-> NoListener,
     isApplyingRemoteData |-> FALSE,
     pendingRemoteUpdates |-> EmptyUpdates,
     activeProjectId |-> Null,
     currentMembership |-> "owner",
     ui |-> BlankFields,              \* element.value of every field
     gate |-> FALSE,                  \* the upsell gate is shown
     appVisible |-> TRUE,             \* app-container is not hidden
     pendingRendered |-> {},          \* invites with a revoke button on screen
     incomingRendered |-> {},         \* invites with accept/dismiss buttons on screen
     lsActiveProjectId |-> Null,      \* localStorage 'activeProjectId'
     lsData |-> [k \in {} |-> BlankFields],  \* localStorage per storageKey()
     live |-> {},                     \* listeners registered and not unsubscribed
     tasks |-> [sl \in Slots |-> IdleTask],
     fsLast |-> 0, fsTimer |-> NoTimer,      \* throttle(persistRemoteUpdates, 500)
     lsLast |-> 0, lsTimer |-> NoTimer,      \* throttle(saveLocalData, 200)
     outbox |-> <<>>,                 \* updateDoc requests issued, not yet completed
     sent |-> <<>>,                   \* history: field updates issued by the flush
     editLog |-> <<>>,                \* history: the user's edits, in order
     lsRemoved |-> {},                \* history: ids removeItem('activeProjectId') dropped
     acceptLog |-> <<>>,              \* history: how each acceptInvite call ended
     failLog |-> <<>>,                \* history: the updateDoc requests that were rejected
     api |-> [pc |-> "idle", retryCount |-> 0, reqs |-> <<>>, resps |-> <<>>,
              outcome |-> [ok |-> FALSE, msg |-> "", cause |-> ""]],
                                      \* the callGeminiAPI call in progress
     apiLog |-> <<>>,                 \* history: the completed callGeminiAPI calls
     reloadPending |-> FALSE,         \* finishProject has armed window.location.reload()
     clearedAt |-> -1,                \* history: Len(editLog) at the last clear click
     overwrote |-> {},                \* history: fields whose unflushed edit a snapshot replaced on screen
     proxy |-> [pc |-> "idle", req |-> [method |-> "", key |-> "", json |-> FALSE],
                upstream |-> <<>>],   \* the gemini-proxy invocation serving this page
     proxyLog |-> <<>>]               \* history: the invocations the proxy has answered

\* storageKey(), without the constant prefix
storageKey(s) ==
    IF s.currentUser = Null \/ s.activeProjectId = Null
    THEN GuestScope ELSE s.activeProjectId

\* getCurrentFieldValues()
getCurrentFieldValues(s) == [f \in FieldIds |-> s.ui[f]]

\* loadLocalData()
loadLocalData(s) ==
    IF storageKey(s) \in DOMAIN s.lsData
    THEN [s EXCEPT !.ui = s.lsData[storageKey(s)]]
    ELSE s

\* saveLocalData()
saveLocalData(s) ==
    [s EXCEPT !.lsData =
        [k \in DOMAIN @ \cup {storageKey(s)} |->
            IF k = storageKey(s) THEN getCurrentFieldValues(s) ELSE @[k]]]

\* clearProjectSubscriptions()
clearProjectSubscriptions(s) ==
    LET s1 == Unsubscribe(s, "project", s.unsubscribeProject)
        s2 == Unsubscribe(s1, "members", s.unsubscribeMembers)
        s3 == Unsubscribe(s2, "pending", s.unsubscribePendingInvites)
        s4 == Unsubscribe(s3, "incoming", s.unsubscribeIncomingInvites)
    IN [s4 EXCEPT !.unsubscribeProject = NoListener,
                  !.unsubscribeMembers = NoListener,
                  !.unsubscribePendingInvites = NoListener,
                  !.unsubscribeIncomingInvites = NoListener,
                  !.projectDocRef = Null,
                  !.pendingRemoteUpdates = EmptyUpdates]

\* subscribeToProject(projectId)
subscribeToProject(s, p) ==
    LET s1 == Unsubscribe(s, "project", s.unsubscribeProject)
        s2 == [s1 EXCEPT !.projectDocRef = p]
    IN [OnSnapshot(s2, "project", p) EXCEPT !.unsubscribeProject = NewListenerId(s2, "project")]

\* subscribeToPendingInvites(projectId)
subscribeToPendingInvites(s, p) ==
    LET s1 == Unsubscribe(s, "pending", s.unsubscribePendingInvites)
    IN IF s1.currentUser = Null \/ s1.currentMembership # "owner"
       THEN [s1 EXCEPT !.pendingRendered = {},
                       !.unsubscribePendingInvites = NoListener]
       ELSE [OnSnapshot(s1, "pending", p)
                EXCEPT !.unsubscribePendingInvites = NewListenerId(s1, "pending")]

\* subscribeToMembers(projectId)
subscribeToMembers(s, p) ==
    LET s1 == Unsubscribe(s, "members", s.unsubscribeMembers)
    IN [OnSnapshot(s1, "members", p) EXCEPT !.unsubscribeMembers = NewListenerId(s1, "members")]

\* watchIncomingInvites(user)
watchIncomingInvites(s, u) ==
    LET s1 == Unsubscribe(s, "incoming", s.unsubscribeIncomingInvites)
    IN [OnSnapshot(s1, "incoming", TrimLower(EmailOf(u)))
            EXCEPT !.unsubscribeIncomingInvites = NewListenerId(s1, "incoming")]

----------------------------------------------------------------------------
(* setActiveProject and its callers, as operators on a client record *)

Throw(s, slot) == [s EXCEPT !.tasks[slot] = IdleTask]

\* a mutant of setActiveProjectEnter: the check for the active id is missing
setActiveProjectEnterNoReturn(s, slot, p) ==
    IF s.currentUser = Null
    THEN [s EXCEPT !.tasks[slot].pc = "sap_return"]
    ELSE [clearProjectSubscriptions(s)
            EXCEPT !.activeProjectId = p,
                   !.lsActiveProjectId = p,
                   !.projectDocRef = p,
                   !.tasks[slot].pc = "sap_getDoc",
                   !.tasks[slot].pid = p]

\* a mutant of setActiveProjectEnter: switches without tearing down first
setActiveProjectEnterNoClear(s, slot, p) ==
    IF s.currentUser = Null \/ s.activeProjectId = p
    THEN [s EXCEPT !.tasks[slot].pc = "sap_return"]
    ELSE [s EXCEPT !.activeProjectId = p,
                   !.lsActiveProjectId = p,
                   !.projectDocRef = p,
                   !.tasks[slot].pc = "sap_getDoc",
                   !.tasks[slot].pid = p]

\* setActiveProject(projectId) up to its first await (or its early return)
setActiveProjectEnter(s, slot, p) ==
    IF s.currentUser = Null \/ s.activeProjectId = p
    THEN [s EXCEPT !.tasks[slot].pc = "sap_return"]
    ELSE [clearProjectSubscriptions(s)
            EXCEPT !.activeProjectId = p,
                   !.lsActiveProjectId = p,
                   !.projectDocRef = p,
                   !.tasks[slot].pc = "sap_getDoc",
                   !.tasks[slot].pid = p]

\* the user the rest of the initialisation works for: the parameter `user` of
\* initializeForUser, or currentUser in the upsell gate's continue handler
InitUser(s) ==
    IF s.tasks["init"].origin = "continue" THEN s.currentUser ELSE s.tasks["init"].user

\* initializeForUser after the fallback: watchIncomingInvites(user)
InitFinish(s) ==
    IF InitUser(s) = Null THEN Throw(s, "init")
    ELSE [watchIncomingInvites(s, InitUser(s)) EXCEPT !.tasks["init"] = IdleTask]

\* initializeForUser after resolveActiveProject returned: the fallback
InitAfterResolve(s) ==
    IF s.activeProjectId # Null THEN InitFinish(s)
    ELSE IF InitUser(s) = Null THEN Throw(s, "init")
    ELSE LET s1 == [s EXCEPT !.activeProjectId = PersonalId(InitUser(s)),
                             !.tasks["init"].ret = "fallback"]
             s2 == setActiveProjectEnter(s1, "init", PersonalId(InitUser(s)))
         IN IF s2.tasks["init"].pc = "sap_return" THEN InitFinish(s2) ELSE s2

\* what the caller of setActiveProject does when it returns
AfterSetActiveProject(s, slot) ==
    IF slot = "accept"
    THEN [s EXCEPT !.tasks[slot] = IdleTask,
                   !.acceptLog = Append(@, [inv |-> s.tasks[slot].inv, end |-> "done"])]
    ELSE IF s.tasks[slot].ret = "fallback" THEN InitFinish(s)
    ELSE InitAfterResolve(s)

\* setActiveProject(p) called: suspended at its first await, or returned to the caller
CallSetActiveProject(s, slot, p) ==
    LET s1 == setActiveProjectEnter(s, slot, p)
    IN IF s1.tasks[slot].pc = "sap_return" THEN AfterSetActiveProject(s1, slot) ELSE s1

\* the end of setActiveProject: the three subscriptions, then back to the caller
setActiveProjectFinish(s, slot) ==
    LET p == s.tasks[slot].pid
        s1 == subscribeToProject(s, p)
        s2 == subscribeToMembers(s1, p)
        s3 == subscribeToPendingInvites(s2, p)
    IN AfterSetActiveProject(s3, slot)

\* a mutant of ResolvedRole: a user without a membership record counts as editor
ResolvedRoleEditor(m) == IF m # Null THEN m ELSE "editor"

\* currentMembership = membershipSnap.exists() ? membershipSnap.data() : { role: 'viewer' }
ResolvedRole(m) == IF m # Null THEN m ELSE "viewer"

\* the role setActiveProject writes for a user without a membership record
SelfGrantedRole(uid, ownerId) == IF uid = ownerId THEN "owner" ELSE "editor"

\* resolveActiveProject(user) up to its first await
resolveActiveProject(s, u) ==
    LET s0 == [s EXCEPT !.tasks["init"].user = u, !.tasks["init"].ret = "resolve"]
    IN IF s0.lsActiveProjectId # Null
       THEN [s0 EXCEPT !.tasks["init"].pc = "rap_getDoc",
                       !.tasks["init"].pid = s0.lsActiveProjectId]
       ELSE IF u = Null THEN Throw(s0, "init")
       ELSE CallSetActiveProject(s0, "init", PersonalId(u))

\* ensureOwnerProject(user) up to its first await
ensureOwnerProject(s, u, origin) ==
    [s EXCEPT !.tasks["init"] =
        [IdleTask EXCEPT !.pc = "eop_getDoc", !.origin = origin, !.user = u,
                         !.pid = PersonalId(u)]]

\* a project document as setDoc writes it
ProjectDoc(ownerId, plan, fields) ==
    [exists |-> TRUE, ownerId |-> ownerId, plan |-> plan, fields |-> fields,
     lastEditor |-> Null]

\* docSnap.exists() is false
NoProject ==
    [exists |-> FALSE, ownerId |-> Null, plan |-> Null, fields |-> BlankFields,
     lastEditor |-> Null]

NoInvite ==
    [exists |-> FALSE, projectId |-> Null, invitedEmail |-> Null, role |-> Null,
     status |-> Null, createdBy |-> Null]

----------------------------------------------------------------------------
(* Session, initialisation and project activation *)

\* the model follows the sessions for MaxUserActions sign-ins, sign-outs, clicks,
\* submissions and input events
Budget == userActions < MaxUserActions

\* onAuthStateChanged(user), user signed in: initializeForUser(user) starts
SignIn(c, u) ==
    /\ cl[c].currentUser = Null
    /\ cl[c].tasks["init"].pc = "idle"
    /\ Budget
    /\ cl' = [cl EXCEPT ![c].currentUser = u,
                        ![c].tasks["init"] =
                            [IdleTask EXCEPT !.pc = "syncUserProfile",
                                             !.origin = "init", !.user = u]]
    /\ userActions' = userActions + 1
    /\ UNCHANGED <<projects, members, invites, now>>

\* onAuthStateChanged(null)
SignOut(c) ==
    /\ cl[c].currentUser # Null
    /\ Budget
    /\ cl' = [cl EXCEPT ![c] =
                loadLocalData(
                    [clearProjectSubscriptions([@ EXCEPT !.currentUser = Null])
                        EXCEPT !.activeProjectId = Null,
                               !.currentMembership = "viewer",
                               !.appVisible = FALSE,
                               !.gate = FALSE])]
    /\ userActions' = userActions + 1
    /\ UNCHANGED <<projects, members, invites, now>>

\* initializeForUser after syncUserProfile: a free user who is not waitlisted
\* gets the upsell gate and the project setup waits for the continue button
InitRouteGate(c) ==
    /\ cl[c].tasks["init"].pc = "syncUserProfile"
    /\ cl' = [cl EXCEPT ![c].gate = TRUE, ![c].appVisible = FALSE,
                        ![c].tasks["init"] = IdleTask]
    /\ UNCHANGED <<projects, members, invites, now, userActions>>

\* initializeForUser after syncUserProfile: a waitlisted or pro user goes on
InitRouteApp(c) ==
    /\ cl[c].tasks["init"].pc = "syncUserProfile"
    /\ cl' = [cl EXCEPT ![c] = ensureOwnerProject([@ EXCEPT !.appVisible = TRUE],
                                                   @.tasks["init"].user, "init")]
    /\ UNCHANGED <<projects, members, invites, now, userActions>>

\* the continue button of the upsell gate
ContinueClick(c) ==
    /\ cl[c].gate
    /\ cl[c].tasks["init"].pc = "idle"
    /\ Budget
    /\ cl' = [cl EXCEPT ![c] =
                IF @.currentUser # Null /\ @.activeProjectId = Null
                THEN ensureOwnerProject([@ EXCEPT !.gate = FALSE, !.appVisible = TRUE],
                                        @.currentUser, "continue")
                ELSE [@ EXCEPT !.gate = FALSE, !.appVisible = TRUE]]
    /\ userActions' = userActions + 1
    /\ UNCHANGED <<projects, members, invites, now>>

\* ensureOwnerProject(user) resumes from an await
EnsureOwnerProjectStep(c) ==
    LET s == cl[c]
        t == s.tasks["init"]
    IN
    \/ /\ t.pc = "eop_getDoc"
       /\ cl' = [cl EXCEPT ![c].tasks["init"] =
                    IF ~projects[t.pid].exists
                    THEN [t EXCEPT !.pc = "eop_setDoc",
                                   !.fields = getCurrentFieldValues(s)]
                    ELSE IF projects[t.pid].plan # Null
                    THEN [t EXCEPT !.pc = "eop_setMember"]
                    ELSE [t EXCEPT !.pc = "eop_updatePlan"]]
       /\ UNCHANGED <<projects, members, invites, now, userActions>>
    \/ /\ t.pc \in {"eop_setDoc", "eop_updatePlan", "eop_setMember"}
       /\ projects' = IF t.pc = "eop_setDoc"
                      THEN [projects EXCEPT ![t.pid] = ProjectDoc(t.user, "free", t.fields)]
                      ELSE IF t.pc = "eop_updatePlan"
                      THEN [projects EXCEPT ![t.pid].plan = "free"]
                      ELSE projects
       /\ members' = IF t.pc = "eop_setMember"
                     THEN [members EXCEPT ![t.pid][t.user] = "owner"]
                     ELSE members
       /\ cl' = IF t.pc = "eop_setMember"
                THEN LET m == NotifyAll("members", t.pid)
                     IN [m EXCEPT ![c] =
                           resolveActiveProject(m[c],
                               IF t.origin = "continue" THEN m[c].currentUser ELSE t.user)]
                ELSE [NotifyAll("project", t.pid)
                         EXCEPT ![c].tasks["init"].pc = "eop_setMember"]
       /\ UNCHANGED <<invites, now, userActions>>

\* a mutant of ResolveActiveProjectStep: the remembered id is adopted without
\* looking at existing.exists()
ResolveActiveProjectStepNoCheck(c) ==
    LET s == cl[c]
        t == s.tasks["init"]
    IN
    /\ t.pc = "rap_getDoc"
    /\ cl' = [cl EXCEPT ![c] = CallSetActiveProject(s, "init", t.pid)]
    /\ UNCHANGED <<projects, members, invites, now, userActions>>

\* resolveActiveProject(user) resumes from getDoc(doc(db, 'projects', stored))
ResolveActiveProjectStep(c) ==
    LET s == cl[c]
        t == s.tasks["init"]
        removed == [s EXCEPT !.lsActiveProjectId = Null,
                             !.lsRemoved = @ \cup {t.pid}]
    IN
    /\ t.pc = "rap_getDoc"
    /\ cl' = [cl EXCEPT ![c] =
                IF projects[t.pid].exists
                THEN CallSetActiveProject(s, "init", t.pid)
                ELSE IF t.user = Null
                THEN Throw(removed, "init")
                ELSE CallSetActiveProject(removed, "init", PersonalId(t.user))]
    /\ UNCHANGED <<projects, members, invites, now, userActions>>

\* setActiveProject(projectId) resumes from an await
SetActiveProjectStep(c, slot) ==
    LET s == cl[c]
        t == s.tasks[slot]
    IN
    \/ /\ t.pc = "sap_getDoc"
       /\ cl' = [cl EXCEPT ![c] =
                    IF s.currentUser = Null THEN Throw(s, slot)
                    ELSE IF ~projects[t.pid].exists
                    THEN [s EXCEPT !.tasks[slot].pc = "sap_setDoc",
                                   !.tasks[slot].uid = s.currentUser,
                                   !.tasks[slot].ownerId = Null,
                                   !.tasks[slot].fields = getCurrentFieldValues(s)]
                    ELSE [s EXCEPT !.tasks[slot].pc = "sap_getMember",
                                   !.tasks[slot].uid = s.currentUser,
                                   !.tasks[slot].ownerId = projects[t.pid].ownerId]]
       /\ UNCHANGED <<projects, members, invites, now, userActions>>
    \/ /\ t.pc = "sap_getMember"
       /\ cl' = [cl EXCEPT ![c] =
                    LET s1 == [s EXCEPT !.currentMembership =
                                            ResolvedRole(members[t.pid][t.uid])]
                    IN IF members[t.pid][t.uid] # Null
                       THEN setActiveProjectFinish(s1, slot)
                       ELSE IF s1.currentUser = Null THEN Throw(s1, slot)
                       ELSE [s1 EXCEPT !.tasks[slot].pc = "sap_setMember",
                                       !.tasks[slot].uid = s1.currentUser,
                                       !.tasks[slot].role =
                                           SelfGrantedRole(s1.currentUser, t.ownerId)]]
       /\ UNCHANGED <<projects, members, invites, now, userActions>>
    \/ /\ t.pc \in {"sap_setDoc", "sap_setMember"}
       /\ projects' = IF t.pc = "sap_setDoc"
                      THEN [projects EXCEPT ![t.pid] = ProjectDoc(t.uid, Null, t.fields)]
                      ELSE projects
       /\ members' = IF t.pc = "sap_setMember"
                     THEN [members EXCEPT ![t.pid][t.uid] = t.role]
                     ELSE members
       /\ cl' = IF t.pc = "sap_setDoc"
                THEN LET m == NotifyAll("project", t.pid)
                     IN [m EXCEPT ![c] =
                           IF m[c].currentUser = Null THEN Throw(m[c], slot)
                           ELSE [m[c] EXCEPT !.tasks[slot].pc = "sap_getMember",
                                             !.tasks[slot].uid = m[c].currentUser]]
                ELSE LET m == NotifyAll("members", t.pid)
                     IN [m EXCEPT ![c] = setActiveProjectFinish(m[c], slot)]
       /\ UNCHANGED <<invites, now, userActions>>

----------------------------------------------------------------------------
(* Invites *)

InviteDocs == {i \in InviteIds : invites[i].exists}

\* a mutant of NewInviteId: an id that may already name an invite
NewInviteIdReused == CHOOSE i \in InviteIds : TRUE

\* window.crypto.randomUUID(): an id no invite has yet
NewInviteId == CHOOSE i \in InviteIds : ~invites[i].exists

\* the guards of the invite form's submit handler before it reads the inputs
inviteFormAllowed(s) ==
    /\ s.currentUser # Null /\ s.activeProjectId # Null
    /\ s.currentMembership = "owner"

\* the submit handler of the invite form; the inputs hold rawEmail and rawRole
InviteSubmit(c, rawEmail, rawRole) ==
    LET s == cl[c]
        invitedEmail == TrimLower(rawEmail)
        role == IF rawRole = "" THEN "editor" ELSE rawRole
        doc == [exists |-> TRUE, projectId |-> s.activeProjectId, invitedEmail |-> invitedEmail,
                role |-> role, status |-> Pending, createdBy |-> s.currentUser]
    IN
    /\ s.appVisible
    /\ inviteFormAllowed(s)
    /\ invitedEmail # ""
    /\ InviteDocs # InviteIds
    /\ Budget
    /\ invites' = [invites EXCEPT ![NewInviteId] = doc]
    /\ cl' = NotifyInvite(cl, doc)
    /\ userActions' = userActions + 1
    /\ UNCHANGED <<projects, members, now>>

\* the click handler of a rendered revoke button
RevokeClick(c, i) ==
    /\ cl[c].appVisible
    /\ i \in cl[c].pendingRendered
    /\ Budget
    /\ invites' = [invites EXCEPT ![i].status = "revoked"]
    /\ cl' = NotifyInvite(cl, invites[i])
    /\ userActions' = userActions + 1
    /\ UNCHANGED <<projects, members, now>>

\* the click handler of a rendered dismiss button
DismissClick(c, i) ==
    /\ cl[c].appVisible
    /\ i \in cl[c].incomingRendered
    /\ Budget
    /\ invites' = [invites EXCEPT ![i].status = "dismissed"]
    /\ cl' = NotifyInvite(cl, invites[i])
    /\ userActions' = userActions + 1
    /\ UNCHANGED <<projects, members, now>>

\* the click handler of a rendered accept button: acceptInvite(inviteId, invite)
\* up to its first await
AcceptClick(c, i) ==
    LET s == cl[c] IN
    /\ s.appVisible
    /\ i \in s.incomingRendered
    /\ s.tasks["accept"].pc = "idle"
    /\ s.currentUser # Null
    /\ Budget
    /\ cl' = [cl EXCEPT ![c].tasks["accept"] =
                [IdleTask EXCEPT !.pc = "acc_setMember", !.inv = i,
                                 !.pid = invites[i].projectId,
                                 !.role = invites[i].role,
                                 !.uid = s.currentUser]]
    /\ userActions' = userActions + 1
    /\ UNCHANGED <<projects, members, invites, now>>

\* a mutant of AcceptInviteStep: the upsert of a membership record that exists
\* already does not keep the invite's role
AcceptInviteStepRegrant(c) ==
    LET s == cl[c]
        t == s.tasks["accept"]
    IN
    \/ /\ t.pc = "acc_setMember"
       /\ members' = [members EXCEPT ![t.pid][t.uid] =
                        IF @ = Null THEN t.role ELSE "editor"]
       /\ cl' = LET m == NotifyAll("members", t.pid)
                IN [m EXCEPT ![c] =
                      IF m[c].currentUser = Null THEN Throw(m[c], "accept")
                      ELSE [m[c] EXCEPT !.tasks["accept"].pc = "acc_updateInvite",
                                        !.tasks["accept"].uid = m[c].currentUser]]
       /\ UNCHANGED <<projects, invites, now, userActions>>
    \/ /\ t.pc = "acc_updateInvite"
       /\ invites' = [invites EXCEPT ![t.inv].status = "accepted"]
       /\ cl' = LET m == NotifyInvite(cl, invites[t.inv])
                IN [m EXCEPT ![c] = CallSetActiveProject(m[c], "accept", t.pid)]
       /\ UNCHANGED <<projects, members, now, userActions>>

\* acceptInvite resumes from an await
AcceptInviteStep(c) ==
    LET s == cl[c]
        t == s.tasks["accept"]
    IN
    \/ /\ t.pc = "acc_setMember"
       /\ members' = [members EXCEPT ![t.pid][t.uid] = t.role]
       /\ cl' = LET m == NotifyAll("members", t.pid)
                IN [m EXCEPT ![c] =
                      IF m[c].currentUser = Null THEN Throw(m[c], "accept")
                      ELSE [m[c] EXCEPT !.tasks["accept"].pc = "acc_updateInvite",
                                        !.tasks["accept"].uid = m[c].currentUser]]
       /\ UNCHANGED <<projects, invites, now, userActions>>
    \/ /\ t.pc = "acc_updateInvite"
       /\ invites' = [invites EXCEPT ![t.inv].status = "accepted"]
       /\ cl' = LET m == NotifyInvite(cl, invites[t.inv])
                IN [m EXCEPT ![c] = CallSetActiveProject(m[c], "accept", t.pid)]
       /\ UNCHANGED <<projects, members, now, userActions>>

\* the setDoc or updateDoc acceptInvite awaits is rejected (network error,
\* permission denied): nothing is written and the catch block of acceptInvite
\* ends the call
AcceptInviteFail(c) ==
    /\ cl[c].tasks["accept"].pc \in {"acc_setMember", "acc_updateInvite"}
    /\ cl' = [cl EXCEPT ![c] =
                [Throw(@, "accept") EXCEPT !.acceptLog =
                    Append(@, [inv |-> cl[c].tasks["accept"].inv,
                               end |-> cl[c].tasks["accept"].pc])]]
    /\ UNCHANGED <<projects, members, invites, now, userActions>>

\* the getDoc or setDoc setActiveProject awaits is rejected: nothing is written,
\* setActiveProject has no catch block, so the exception ends the caller
\* (the catch block of acceptInvite or of initializeForUser)
SetActiveProjectFail(c, slot) ==
    /\ cl[c].tasks[slot].pc \in
          {"sap_getDoc", "sap_getMember", "sap_setDoc", "sap_setMember"}
    /\ cl' = [cl EXCEPT ![c] =
                IF slot = "accept"
                THEN [Throw(@, slot) EXCEPT !.acceptLog =
                        Append(@, [inv |-> cl[c].tasks[slot].inv,
                                   end |-> cl[c].tasks[slot].pc])]
                ELSE Throw(@, slot)]
    /\ UNCHANGED <<projects, members, invites, now, userActions>>

----------------------------------------------------------------------------
(* Snapshot callbacks *)

\* const remoteFields = data.fields ?? {}
remoteFields(data) ==
    IF "fields" \in DOMAIN data THEN data.fields ELSE EmptyUpdates

\* a mutant of applyRemoteSnapshot: every field it visits re-enters the input
\* handler's remote branch
applyRemoteSnapshotEcho(s, data) ==
    [s EXCEPT !.ui = [f \in FieldIds |->
                        IF f \in DOMAIN remoteFields(data)
                        THEN remoteFields(data)[f] ELSE ""],
              !.pendingRemoteUpdates =
                     [f \in FieldIds |->
                        IF f \in DOMAIN remoteFields(data)
                        THEN remoteFields(data)[f] ELSE ""]]

\* a mutant of applyRemoteSnapshot: a field the snapshot has no value for keeps
\* the value on screen
applyRemoteSnapshotNoDefault(s, data) ==
    [s EXCEPT !.ui = [f \in FieldIds |->
                        IF f \in DOMAIN remoteFields(data)
                        THEN remoteFields(data)[f] ELSE s.ui[f]],
              !.isApplyingRemoteData = FALSE]

\* a mutant of applyRemoteSnapshot: isApplyingRemoteData is not reset
applyRemoteSnapshotNoReset(s, data) ==
    [s EXCEPT !.ui = [f \in FieldIds |->
                        IF f \in DOMAIN remoteFields(data)
                        THEN remoteFields(data)[f] ELSE ""],
              !.isApplyingRemoteData = TRUE]

\* a mutant of applyRemoteSnapshot: a field the user has filled in is left as
\* it is, only empty fields take the remote value
applyRemoteSnapshotKeepsText(s, data) ==
    LET s1 == [s EXCEPT !.isApplyingRemoteData = TRUE]
        s2 == [s1 EXCEPT !.ui = [f \in FieldIds |->
                        LET remoteValue == IF f \in DOMAIN remoteFields(data)
                                           THEN remoteFields(data)[f] ELSE ""
                        IN IF s1.ui[f] = "" THEN remoteValue ELSE s1.ui[f]]]
    IN [s2 EXCEPT !.isApplyingRemoteData = FALSE]

\* the callback of subscribeToProject on an existing document: isApplyingRemoteData
\* is set, every field whose value on screen differs from the remote value (''
\* when the snapshot has none) is assigned it, and the flag is reset, all inside
\* one synchronous block; assigning element.value dispatches no input event
applyRemoteSnapshot(s, data) ==
    LET s1 == [s EXCEPT !.isApplyingRemoteData = TRUE]
        s2 == [s1 EXCEPT !.ui = [f \in FieldIds |->
                        LET remoteValue == IF f \in DOMAIN remoteFields(data)
                                           THEN remoteFields(data)[f] ELSE ""
                        IN IF s1.ui[f] # remoteValue THEN remoteValue ELSE s1.ui[f]]]
    IN [s2 EXCEPT !.isApplyingRemoteData = FALSE]

\* the project listener l of client c receives the current document
ProjectSnapshot(c, l) ==
    /\ l \in LiveOf(cl[c], "project") /\ l.dirty
    /\ cl' = [cl EXCEPT ![c] =
                IF ~projects[l.key].exists THEN MarkDelivered(@, l)
                ELSE applyRemoteSnapshot(MarkDelivered(@, l), projects[l.key])]
    /\ UNCHANGED <<projects, members, invites, now, userActions>>

\* the callback of subscribeToMembers(projectId)
onMembersSnapshot(s, p) ==
    IF s.currentUser # Null /\ members[p][s.currentUser] # Null
    THEN LET s1 == [s EXCEPT !.currentMembership = members[p][s.currentUser]]
         IN IF s.currentMembership # s1.currentMembership
            THEN subscribeToPendingInvites(s1, p) ELSE s1
    ELSE s

\* the members listener l of client c receives the current member list
MembersSnapshot(c, l) ==
    /\ l \in LiveOf(cl[c], "members") /\ l.dirty
    /\ cl' = [cl EXCEPT ![c] = onMembersSnapshot(MarkDelivered(@, l), l.key)]
    /\ UNCHANGED <<projects, members, invites, now, userActions>>

\* the pending-invites listener l of client c: renderPendingInvites(invites)
PendingInvitesSnapshot(c, l) ==
    /\ l \in LiveOf(cl[c], "pending") /\ l.dirty
    /\ cl' = [cl EXCEPT ![c] =
                [MarkDelivered(@, l) EXCEPT !.pendingRendered =
                    {i \in InviteDocs : /\ invites[i].projectId = l.key
                                        /\ invites[i].status = Pending}]]
    /\ UNCHANGED <<projects, members, invites, now, userActions>>

\* the incoming-invites listener l of client c: renderIncomingInvites(invites)
IncomingInvitesSnapshot(c, l) ==
    /\ l \in LiveOf(cl[c], "incoming") /\ l.dirty
    /\ cl' = [cl EXCEPT ![c] =
                [MarkDelivered(@, l) EXCEPT !.incomingRendered =
                    IF cl[c].currentUser = Null THEN {}
                    ELSE {i \in InviteDocs : /\ invites[i].invitedEmail = l.key
                                             /\ invites[i].status = Pending}]]
    /\ UNCHANGED <<projects, members, invites, now, userActions>>

----------------------------------------------------------------------------
(* Field edits, the throttled saves and the remote flush *)

LocalWait == 200
RemoteWait == 500

StartTime == 1000
TickMs == 250
MaxTicks == 2

\* the sentinel serverTimestamp() puts into a write, resolved by the store
ServerTimestamp == "serverTimestamp"

\* a mutant of persistRemoteUpdates: the buffer is not emptied by the flush
persistRemoteUpdatesNoDrain(s) ==
    IF \/ s.currentUser = Null \/ s.activeProjectId = Null \/ s.projectDocRef = Null
       \/ DOMAIN s.pendingRemoteUpdates = {}
    THEN s
    ELSE LET req == [ref |-> s.projectDocRef, updates |-> s.pendingRemoteUpdates,
                     updatedAt |-> ServerTimestamp, lastEditor |-> s.currentUser]
         IN [s EXCEPT !.outbox = Append(@, req),
                      !.sent = Append(@, req)]

\* a mutant of persistRemoteUpdates: the flush without its guards
persistRemoteUpdatesUnguarded(s) ==
    LET req == [ref |-> s.projectDocRef, updates |-> s.pendingRemoteUpdates,
                updatedAt |-> ServerTimestamp, lastEditor |-> s.currentUser]
    IN [s EXCEPT !.pendingRemoteUpdates = EmptyUpdates,
                 !.outbox = Append(@, req),
                 !.sent = Append(@, req)]

\* persistRemoteUpdates() up to its await: the guards, the drain of the buffer
\* and the updateDoc request
persistRemoteUpdates(s) ==
    IF \/ s.currentUser = Null \/ s.activeProjectId = Null \/ s.projectDocRef = Null
       \/ DOMAIN s.pendingRemoteUpdates = {}
    THEN s
    ELSE LET req == [ref |-> s.projectDocRef, updates |-> s.pendingRemoteUpdates,
                     updatedAt |-> ServerTimestamp, lastEditor |-> s.currentUser]
         IN [s EXCEPT !.pendingRemoteUpdates = EmptyUpdates,
                      !.outbox = Append(@, req),
                      !.sent = Append(@, req)]

\* a mutant of throttledFirestoreSave: a debounce, the call only re-arms the timer
throttledFirestoreSaveDebounce(s, t) ==
    [s EXCEPT !.fsTimer = t + RemoteWait]

\* a mutant of throttledFirestoreSave: a call inside the window is dropped, no
\* trailing timer is armed for it
throttledFirestoreSaveNoTrailing(s, t) ==
    LET remaining == RemoteWait - (t - s.fsLast)
    IN IF remaining <= 0
       THEN persistRemoteUpdates([s EXCEPT !.fsLast = t])
       ELSE s

\* throttledFirestoreSave(), the wrapper throttle(persistRemoteUpdates, 500), at time t
throttledFirestoreSave(s, t) ==
    LET remaining == RemoteWait - (t - s.fsLast)
    IN IF remaining <= 0
       THEN persistRemoteUpdates([s EXCEPT !.fsLast = t])
       ELSE [s EXCEPT !.fsTimer = t + remaining]

\* throttledLocalSave(), the wrapper throttle(saveLocalData, 200), at time t
throttledLocalSave(s, t) ==
    LET remaining == LocalWait - (t - s.lsLast)
    IN IF remaining <= 0
       THEN saveLocalData([s EXCEPT !.lsLast = t])
       ELSE [s EXCEPT !.lsTimer = t + remaining]

\* a mutant of onFieldInput: the listener without the isApplyingRemoteData guard
onFieldInputNoGuard(s, f, v, t) ==
    LET s1 == [s EXCEPT !.ui[f] = v]
    IN IF s1.currentUser # Null /\ s1.projectDocRef # Null
          /\ s1.activeProjectId # Null
       THEN throttledFirestoreSave(
                [s1 EXCEPT !.pendingRemoteUpdates =
                    [g \in DOMAIN @ \cup {f} |-> IF g = f THEN v ELSE @[g]]], t)
       ELSE throttledLocalSave(s1, t)

\* a mutant of onFieldInput: the edit is buffered for the remote flush whether
\* or not a user is signed in
onFieldInputNoAuth(s, f, v, t) ==
    LET s1 == [s EXCEPT !.ui[f] = v]
    IN IF s1.isApplyingRemoteData THEN s1
       ELSE throttledFirestoreSave(
                [s1 EXCEPT !.pendingRemoteUpdates =
                    [g \in DOMAIN @ \cup {f} |-> IF g = f THEN v ELSE @[g]]], t)

\* the input listener bindFieldListeners puts on field f, the user having typed v
onFieldInput(s, f, v, t) ==
    LET s1 == [s EXCEPT !.ui[f] = v]
    IN IF s1.isApplyingRemoteData THEN s1
       ELSE IF s1.currentUser # Null /\ s1.projectDocRef # Null
               /\ s1.activeProjectId # Null
       THEN throttledFirestoreSave(
                [s1 EXCEPT !.pendingRemoteUpdates =
                    [g \in DOMAIN @ \cup {f} |-> IF g = f THEN v ELSE @[g]]], t)
       ELSE throttledLocalSave(s1, t)

\* the user types into field f, leaving it with value v
Edit(c, f, v) ==
    /\ cl[c].appVisible
    /\ Budget
    /\ v # cl[c].ui[f]
    /\ cl' = [cl EXCEPT ![c] =
                [onFieldInput(@, f, v, now)
                    EXCEPT !.editLog = Append(@, [f |-> f, v |-> v, at |-> now])]]
    /\ userActions' = userActions + 1
    /\ UNCHANGED <<projects, members, invites, now>>

TimerDue(d) == d # NoTimer /\ now >= d

\* the trailing timer of throttledFirestoreSave fires
FirestoreTimerFire(c) ==
    /\ TimerDue(cl[c].fsTimer)
    /\ cl' = [cl EXCEPT ![c] =
                persistRemoteUpdates([@ EXCEPT !.fsLast = now, !.fsTimer = NoTimer])]
    /\ UNCHANGED <<projects, members, invites, now, userActions>>

\* the trailing timer of throttledLocalSave fires
LocalTimerFire(c) ==
    /\ TimerDue(cl[c].lsTimer)
    /\ cl' = [cl EXCEPT ![c] =
                saveLocalData([@ EXCEPT !.lsLast = now, !.lsTimer = NoTimer])]
    /\ UNCHANGED <<projects, members, invites, now, userActions>>

\* a mutant of FlushApplied: the buffer is emptied when the update completes
FlushAppliedDrainsLate(c) ==
    LET req == Head(cl[c].outbox) IN
    /\ cl[c].outbox # <<>>
    /\ projects' = IF ~projects[req.ref].exists THEN projects
                   ELSE [projects EXCEPT ![req.ref] =
                          [@ EXCEPT !.fields =
                                [f \in DOMAIN @ \cup DOMAIN req.updates |->
                                    IF f \in DOMAIN req.updates THEN req.updates[f] ELSE @[f]],
                                    !.lastEditor = req.lastEditor]]
    /\ cl' = IF ~projects[req.ref].exists
             THEN [cl EXCEPT ![c].outbox = Tail(@),
                             ![c].pendingRemoteUpdates = EmptyUpdates]
             ELSE [NotifyAll("project", req.ref)
                     EXCEPT ![c].outbox = Tail(@),
                            ![c].pendingRemoteUpdates = EmptyUpdates]
    /\ UNCHANGED <<members, invites, now, userActions>>

\* the store applies the oldest updateDoc request of client c and the await in
\* persistRemoteUpdates resumes
FlushApplied(c) ==
    LET req == Head(cl[c].outbox) IN
    /\ cl[c].outbox # <<>>
    /\ projects' = IF ~projects[req.ref].exists THEN projects
                   ELSE [projects EXCEPT ![req.ref] =
                          [@ EXCEPT !.fields =
                                [f \in DOMAIN @ \cup DOMAIN req.updates |->
                                    IF f \in DOMAIN req.updates THEN req.updates[f] ELSE @[f]],
                                    !.lastEditor = req.lastEditor]]
    /\ cl' = IF ~projects[req.ref].exists THEN [cl EXCEPT ![c].outbox = Tail(@)]
             ELSE [NotifyAll("project", req.ref) EXCEPT ![c].outbox = Tail(@)]
    /\ UNCHANGED <<members, invites, now, userActions>>

\* a mutant of FlushFailed: the catch block puts the fields of the failed
\* update back into the buffer and schedules another flush
FlushFailedRestores(c) ==
    LET req == Head(cl[c].outbox) IN
    /\ cl[c].outbox # <<>>
    /\ cl' = [cl EXCEPT ![c] =
                throttledFirestoreSave(
                    [@ EXCEPT !.outbox = Tail(@),
                              !.pendingRemoteUpdates =
                                  [f \in DOMAIN @ \cup DOMAIN req.updates |->
                                      IF f \in DOMAIN @ THEN @[f] ELSE req.updates[f]],
                              !.failLog = Append(@,
                                  [req |-> req, nSent |-> Len(cl[c].sent),
                                   nEdits |-> Len(cl[c].editLog),
                                   buf |-> DOMAIN cl[c].pendingRemoteUpdates])],
                    now)]
    /\ UNCHANGED <<projects, members, invites, now, userActions>>

\* a mutant of FlushFailed: the catch block ends synchronisation, it drops the
\* listeners and the reference of the active project
FlushFailedTearsDown(c) ==
    LET req == Head(cl[c].outbox) IN
    /\ cl[c].outbox # <<>>
    /\ cl' = [cl EXCEPT ![c] =
                [clearProjectSubscriptions(@)
                    EXCEPT !.outbox = Tail(@),
                           !.failLog = Append(@,
                               [req |-> req, nSent |-> Len(cl[c].sent),
                                nEdits |-> Len(cl[c].editLog),
                                buf |-> DOMAIN cl[c].pendingRemoteUpdates])]]
    /\ UNCHANGED <<projects, members, invites, now, userActions>>

\* the oldest updateDoc request of client c is rejected and the await in
\* persistRemoteUpdates resumes in the catch block, which logs the error,
\* resets the save status and shows a toast
FlushFailed(c) ==
    LET req == Head(cl[c].outbox) IN
    /\ cl[c].outbox # <<>>
    /\ cl' = [cl EXCEPT ![c] =
                [@ EXCEPT !.outbox = Tail(@),
                          !.failLog = Append(@,
                              [req |-> req, nSent |-> Len(cl[c].sent),
                               nEdits |-> Len(cl[c].editLog),
                               buf |-> DOMAIN cl[c].pendingRemoteUpdates])]]
    /\ UNCHANGED <<projects, members, invites, now, userActions>>

\* time passes; a timer that is due fires before later time is observed
Tick ==
    /\ now < StartTime + MaxTicks * TickMs
    /\ \A c \in Clients : ~TimerDue(cl[c].fsTimer) /\ ~TimerDue(cl[c].lsTimer)
    /\ now' = now + TickMs
    /\ UNCHANGED <<cl, projects, members, invites, userActions>>

\* the flush of a collaborator's edit reaches the store: the updateDoc of
\* persistRemoteUpdates run in the session of another member u of project p
CollaboratorWrite(p, u, f, v) ==
    /\ projects[p].exists
    /\ projects[p].fields[f] # v
    /\ Budget
    /\ projects' = [projects EXCEPT ![p].fields[f] = v, ![p].lastEditor = u]
    /\ cl' = NotifyAll("project", p)
    /\ userActions' = userActions + 1
    /\ UNCHANGED <<members, invites, now>>

----------------------------------------------------------------------------
(* Specifications *)

\* the page has just loaded in every browser and the store is empty
ColdInit ==
    /\ cl = [c \in Clients |-> InitClient]
    /\ projects = [p \in ProjectIds |-> NoProject]
    /\ members = [p \in ProjectIds |-> [u \in Users |-> Null]]
    /\ invites = [i \in InviteIds |-> NoInvite]
    /\ now = StartTime
    /\ userActions = 0

\* the session of user u after initializeForUser(u) has completed on a fresh
\* browser and the first snapshot of each listener has been delivered
SettledClient(u) ==
    [InitClient EXCEPT
        !.currentUser = u,
        !.activeProjectId = PersonalId(u),
        !.projectDocRef = PersonalId(u),
        !.lsActiveProjectId = PersonalId(u),
        !.currentMembership = "owner",
        !.unsubscribeProject = 1,
        !.unsubscribeMembers = 1,
        !.unsubscribePendingInvites = 1,
        !.unsubscribeIncomingInvites = 1,
        !.live = {[id |-> 1, kind |-> "project", key |-> PersonalId(u), dirty |-> FALSE],
                  [id |-> 1, kind |-> "members", key |-> PersonalId(u), dirty |-> FALSE],
                  [id |-> 1, kind |-> "pending", key |-> PersonalId(u), dirty |-> FALSE],
                  [id |-> 1, kind |-> "incoming", key |-> TrimLower(EmailOf(u)),
                   dirty |-> FALSE]}]

\* the invite u1 has sent to u2 from the personal project
FirstInvite ==
    [exists |-> TRUE, projectId |-> PersonalId("u1"),
     invitedEmail |-> TrimLower(" U2@X.DE "), role |-> "viewer",
     status |-> Pending, createdBy |-> "u1"]

\* the store after both users have signed in for the first time and u1 has
\* invited u2
SettledStore ==
    /\ projects = [p \in ProjectIds |->
                     ProjectDoc(CHOOSE u \in Users : PersonalId(u) = p, "free", BlankFields)]
    /\ members = [p \in ProjectIds |->
                    [u \in Users |-> IF PersonalId(u) = p THEN "owner" ELSE Null]]
    /\ invites = [i \in InviteIds |-> IF i = 1 THEN FirstInvite ELSE NoInvite]

\* the sessions once the invite shows in u1's pending list and u2's incoming list
SettledSessions ==
    [c \in Clients |->
        IF c = "c1"
        THEN [SettledClient("u1") EXCEPT !.pendingRendered = {1}]
        ELSE [SettledClient("u2") EXCEPT !.incomingRendered = {1}]]

\* u1 is signed in on browser c1 and u2 on browser c2, each in the personal
\* project; u1 has invited u2 and both see the invite
Init ==
    /\ cl = SettledSessions
    /\ SettledStore
    /\ now = StartTime
    /\ userActions = 0

\* the sessions that take part in the session and invite protocol
TeamClients == {"c1", "c2"}

Next ==
    \E c \in TeamClients :
        \/ \E u \in Users : SignIn(c, u)
        \/ SignOut(c)
        \/ InitRouteGate(c)
        \/ InitRouteApp(c)
        \/ ContinueClick(c)
        \/ EnsureOwnerProjectStep(c)
        \/ ResolveActiveProjectStep(c)
        \/ \E slot \in Slots : SetActiveProjectStep(c, slot)
        \/ \E e \in RawEmails, r \in RawRoles : InviteSubmit(c, e, r)
        \/ \E i \in InviteIds : RevokeClick(c, i)
        \/ \E i \in InviteIds : DismissClick(c, i)
        \/ \E i \in InviteIds : AcceptClick(c, i)
        \/ AcceptInviteStep(c)
        \/ \E l \in cl[c].live :
            \/ ProjectSnapshot(c, l)
            \/ MembersSnapshot(c, l)
            \/ PendingInvitesSnapshot(c, l)
            \/ IncomingInvitesSnapshot(c, l)

Spec == Init /\ [][Next]_vars

\* u1 is signed in on browser c1 and works in the personal project; browser c2
\* has loaded the page and nobody is signed in there
SyncSessions ==
    [c \in Clients |-> IF c = "c1" THEN SettledClient("u1") ELSE InitClient]

SyncStore ==
    /\ projects = [p \in ProjectIds |->
                     IF p = PersonalId("u1") THEN ProjectDoc("u1", "free", BlankFields)
                     ELSE NoProject]
    /\ members = [p \in ProjectIds |->
                    [u \in Users |-> IF p = PersonalId("u1") /\ u = "u1"
                                      THEN "owner" ELSE Null]]
    /\ invites = [i \in InviteIds |-> NoInvite]

SyncInit ==
    /\ cl = SyncSessions
    /\ SyncStore
    /\ now = StartTime
    /\ userActions = 0

\* editing, the two throttled saves, the flush and the snapshots of the project
SyncNext ==
    \/ \E f \in FieldIds, v \in Values : Edit("c1", f, v)
    \/ FirestoreTimerFire("c1")
    \/ FlushApplied("c1")
    \/ \E l \in cl["c1"].live : ProjectSnapshot("c1", l)
    \/ \E f \in FieldIds, v \in Values : CollaboratorWrite(PersonalId("u1"), "u2", f, v)
    \/ Tick

SyncSpec == SyncInit /\ [][SyncNext]_vars

\* editing and flushing in the session of u1 when the store can reject an
\* update (the network is down, the rules deny the write)
FailNext ==
    \/ \E f \in FieldIds, v \in Values : Edit("c1", f, v)
    \/ FirestoreTimerFire("c1")
    \/ FlushApplied("c1")
    \/ FlushFailed("c1")
    \/ \E l \in cl["c1"].live : ProjectSnapshot("c1", l)
    \/ Tick

FailSpec == SyncInit /\ [][FailNext]_vars

\* the input listener as a function of the session it runs in: the session of
\* browser c1 is signed in or a guest, and isApplyingRemoteData is drawn from
\* both of its values, the listener being entered while the flag is set only
\* by an input event dispatched inside the snapshot callback
InputSessions ==
    {[c \in Clients |->
        IF c = "c1" THEN [b EXCEPT !.isApplyingRemoteData = a] ELSE InitClient] :
            b \in {SettledClient("u1"), InitClient}, a \in BOOLEAN}

InputInit ==
    /\ cl \in InputSessions
    /\ SyncStore
    /\ now = StartTime
    /\ userActions = 0

InputNext ==
    \/ \E f \in FieldIds, v \in Values : Edit("c1", f, v)
    \/ FirestoreTimerFire("c1")
    \/ LocalTimerFire("c1")
    \/ FlushApplied("c1")
    \/ \E l \in cl["c1"].live : ProjectSnapshot("c1", l)
    \/ Tick

InputSpec == InputInit /\ [][InputNext]_vars

\* the sessions on browser c2, started from Init: u2 edits the fields of the
\* active project while signing out, while accepting the invite (which switches
\* the project) and while either user signs in again
WorkNext ==
    \/ \E f \in FieldIds, v \in Values : Edit("c2", f, v)
    \/ FirestoreTimerFire("c2")
    \/ FlushApplied("c2")
    \/ Tick
    \/ \E u \in Users : SignIn("c2", u)
    \/ SignOut("c2")
    \/ InitRouteGate("c2")
    \/ InitRouteApp("c2")
    \/ ContinueClick("c2")
    \/ EnsureOwnerProjectStep("c2")
    \/ ResolveActiveProjectStep("c2")
    \/ \E slot \in Slots : SetActiveProjectStep("c2", slot)
    \/ \E i \in InviteIds : AcceptClick("c2", i)
    \/ AcceptInviteStep("c2")
    \/ \E l \in cl["c2"].live :
        \/ ProjectSnapshot("c2", l)
        \/ MembersSnapshot("c2", l)
        \/ PendingInvitesSnapshot("c2", l)
        \/ IncomingInvitesSnapshot("c2", l)

WorkSpec == Init /\ [][WorkNext]_vars

\* the field maps a project document can carry: the documents this script
\* writes hold every id of fieldIds, a document written by the older variant of
\* the script (whose fieldIds list differs) holds only some of them
PartialFieldMaps == UNION {[D -> Values] : D \in SUBSET FieldIds}

\* a project document that has no `fields` map
NoFieldsDoc ==
    [exists |-> TRUE, ownerId |-> "u1", plan |-> "free", lastEditor |-> Null]

ForeignDocs ==
    {ProjectDoc("u1", "free", fm) : fm \in PartialFieldMaps} \cup {NoFieldsDoc}

\* the document of project p is written by another version of the page
ForeignWrite(p, d) ==
    /\ projects[p].exists
    /\ d # projects[p]
    /\ Budget
    /\ projects' = [projects EXCEPT ![p] = d]
    /\ cl' = NotifyAll("project", p)
    /\ userActions' = userActions + 1
    /\ UNCHANGED <<members, invites, now>>

\* the project listener of the signed-in session on c1 against documents of
\* every shape
SnapshotNext ==
    \/ \E d \in ForeignDocs : ForeignWrite(PersonalId("u1"), d)
    \/ \E l \in cl["c1"].live : ProjectSnapshot("c1", l)

SnapshotSpec == SyncInit /\ [][SnapshotNext]_vars

\* u1 is signed in on both browsers and works in the personal project in each
TabsInit ==
    /\ cl = [c \in Clients |-> SettledClient("u1")]
    /\ SyncStore
    /\ now = StartTime
    /\ userActions = 0

\* c1 edits one field and c2 the other; both flush and both listen
TabsNext ==
    \/ \E v \in Values : Edit("c1", "problem", v)
    \/ \E v \in Values : Edit("c2", "solution", v)
    \/ \E c \in Clients :
        \/ FirestoreTimerFire(c)
        \/ FlushApplied(c)
        \/ \E l \in cl[c].live : ProjectSnapshot(c, l)
    \/ Tick

TabsSpec == TabsInit /\ [][TabsNext]_vars

\* the page has loaded in browser c1, whose local storage remembers no project
\* or one of the projects; each personal project exists, as its owner's first
\* sign-in left it, or does not exist (never created, or deleted outside the
\* page, the case resolveActiveProject's removeItem is there for)
ResolveInit ==
    /\ \E r \in {Null} \cup ProjectIds :
          cl = [c \in Clients |->
                  IF c = "c1" THEN [InitClient EXCEPT !.lsActiveProjectId = r]
                  ELSE InitClient]
    /\ \E E \in SUBSET Users :
          /\ projects = [p \in ProjectIds |->
                           LET u == CHOOSE w \in Users : PersonalId(w) = p
                           IN IF u \in E THEN ProjectDoc(u, "free", BlankFields)
                              ELSE NoProject]
          /\ members = [p \in ProjectIds |->
                          [u \in Users |-> IF PersonalId(u) = p /\ u \in E
                                            THEN "owner" ELSE Null]]
    /\ invites = [i \in InviteIds |-> NoInvite]
    /\ now = StartTime
    /\ userActions = 0

\* sign-in, initialisation and sign-out on browser c1
ResolveNext ==
    \/ \E u \in Users : SignIn("c1", u)
    \/ SignOut("c1")
    \/ InitRouteGate("c1")
    \/ InitRouteApp("c1")
    \/ ContinueClick("c1")
    \/ EnsureOwnerProjectStep("c1")
    \/ ResolveActiveProjectStep("c1")
    \/ SetActiveProjectStep("c1", "init")
    \/ \E l \in cl["c1"].live :
        \/ ProjectSnapshot("c1", l)
        \/ MembersSnapshot("c1", l)
        \/ PendingInvitesSnapshot("c1", l)
        \/ IncomingInvitesSnapshot("c1", l)

ResolveSpec == ResolveInit /\ [][ResolveNext]_vars

\* the sessions on browser c2, started from Init, with remote operations of
\* acceptInvite and setActiveProject that can fail: u2 accepts the invite,
\* possibly again after a failure, and either user signs in again
AcceptNext ==
    \/ \E i \in InviteIds : AcceptClick("c2", i)
    \/ AcceptInviteStep("c2")
    \/ AcceptInviteFail("c2")
    \/ \E slot \in Slots : SetActiveProjectStep("c2", slot)
    \/ \E slot \in Slots : SetActiveProjectFail("c2", slot)
    \/ \E u \in Users : SignIn("c2", u)
    \/ SignOut("c2")
    \/ InitRouteGate("c2")
    \/ InitRouteApp("c2")
    \/ ContinueClick("c2")
    \/ EnsureOwnerProjectStep("c2")
    \/ ResolveActiveProjectStep("c2")
    \/ \E l \in cl["c2"].live :
        \/ ProjectSnapshot("c2", l)
        \/ MembersSnapshot("c2", l)
        \/ PendingInvitesSnapshot("c2", l)
        \/ IncomingInvitesSnapshot("c2", l)

AcceptSpec == Init /\ [][AcceptNext]_vars

\* the same sessions from the page load on
ColdSpec == ColdInit /\ [][Next]_vars

\* Init is a state the sessions reach from the page load
SettledReached == cl = SettledSessions /\ SettledStore

----------------------------------------------------------------------------
(* Properties of the field synchronisation (checked under SyncSpec) *)

\* docSnap.data().fields[id] ?? ''
RemoteValue(doc, f) ==
    IF f \in DOMAIN remoteFields(doc) THEN remoteFields(doc)[f] ELSE ""

\* this step is the callback of the project listener l of client c
ProjectCallbackStep(c, l) ==
    /\ l \in LiveOf(cl[c], "project") /\ l.dirty
    /\ [l EXCEPT !.dirty = FALSE] \in cl'[c].live

\* C1 (P1, no feedback loop): when the project listener of a signed-in client
\* with an active project applies a snapshot whose value for every field id
\* equals the value on screen, the step issues no remote write, arms no flush
\* and leaves the pending edit buffer as it was (empty stays empty).
NoFeedbackLoop ==
    [][\A c \in Clients : \A l \in cl[c].live :
         ( /\ ProjectCallbackStep(c, l)
           /\ cl[c].currentUser # Null /\ cl[c].activeProjectId # Null
           /\ projects[l.key].exists
           /\ \A f \in FieldIds : RemoteValue(projects[l.key], f) = cl[c].ui[f] )
         => /\ cl'[c].pendingRemoteUpdates = cl[c].pendingRemoteUpdates
            /\ cl'[c].sent = cl[c].sent
            /\ cl'[c].outbox = cl[c].outbox
            /\ cl'[c].fsTimer = cl[c].fsTimer
            /\ cl'[c].ui = cl[c].ui]_vars

\* the single edit of u1 has been flushed, the store has applied it and the
\* listener has handed the resulting snapshot (equal to the screen) back
NoFeedbackLoopWitness ==
    /\ userActions = 1 /\ Len(cl["c1"].editLog) = 1
    /\ Len(cl["c1"].sent) = 1 /\ cl["c1"].outbox = <<>>
    /\ \A l \in LiveOf(cl["c1"], "project") : ~l.dirty
    /\ projects[PersonalId("u1")].fields = cl["c1"].ui
    /\ cl["c1"].pendingRemoteUpdates = EmptyUpdates

\* all edits of client c so far went to one field and lie within one window of
\* RemoteWait milliseconds
SameFieldBurst(c) ==
    LET log == cl[c].editLog IN
    /\ Len(log) >= 1
    /\ \A i \in 1..Len(log) : log[i].f = log[1].f
    /\ log[Len(log)].at - log[1].at < RemoteWait

\* nothing is left to flush: the buffer is empty and no trailing timer is armed
Flushed(c) ==
    cl[c].fsTimer = NoTimer /\ cl[c].pendingRemoteUpdates = EmptyUpdates

\* the update that carries value v for field f and nothing else
OnlyField(f, v) == [g \in {f} |-> v]

----------------------------------------------------------------------------
(* Properties of invites, memberships and subscriptions (checked under Spec) *)

\* C3 as stated (P5, invite terminal states): once the status of an invite is
\* accepted, revoked or dismissed, no step of any client changes it again.
TerminalStatusFinal ==
    [][\A i \in InviteIds :
         (invites[i].exists /\ invites[i].status \in TerminalStatuses)
         => invites'[i].status = invites[i].status]_vars

\* C4 (status never returns to pending): no step takes an invite whose status
\* is accepted, revoked or dismissed back to pending, whatever the clients
\* create, accept, revoke or dismiss.
NeverBackToPending ==
    [][\A i \in InviteIds :
         (invites[i].exists /\ invites[i].status \in TerminalStatuses)
         => (invites'[i].exists /\ invites'[i].status # Pending)]_vars

\* u2 has accepted the invite and completed the switch, and the invite has been
\* revoked afterwards from the list u1 still had on screen
NeverBackToPendingWitness ==
    /\ invites[1].status = "revoked"
    /\ members[PersonalId("u1")]["u2"] = "viewer"
    /\ cl["c2"].currentUser = "u2"
    /\ cl["c2"].tasks["accept"].pc = "idle"
    /\ cl["c2"].activeProjectId = PersonalId("u1")

\* C5 as stated (P6, owner gate): an invite record is written only when the
\* submitting user's role for the project the invite is for is owner.
OwnerGate ==
    [][\A i \in InviteIds :
         (~invites[i].exists /\ invites'[i].exists)
         => members[invites'[i].projectId][invites'[i].createdBy] = "owner"]_vars

\* C6 as stated (membership provenance): every membership of a user other than
\* the project's creator carries the role of an invite for that project (the
\* membership is written before the invite's status, so the status is left open).
MembershipProvenance ==
    \A p \in ProjectIds : \A u \in Users :
        (projects[p].exists /\ members[p][u] # Null /\ u # projects[p].ownerId)
        => \E i \in InviteIds : /\ invites[i].exists
                                 /\ invites[i].projectId = p
                                 /\ invites[i].role = members[p][u]

\* C7 as stated (creator is owner): once the creator of a project holds the
\* role owner, no step changes that role.
CreatorStaysOwner ==
    [][\A p \in ProjectIds :
         (projects[p].exists /\ members[p][projects[p].ownerId] = "owner")
         => members'[p][projects[p].ownerId] = "owner"]_vars

\* C8 (P4, role default): the step of setActiveProject that resolves the role
\* from the membership read leaves currentMembership.role equal to the stored
\* role when a record for (project, user) exists and equal to viewer when none does.
RoleDefault ==
    [][\A c \in Clients : \A slot \in Slots :
         LET t == cl[c].tasks[slot] IN
         (t.pc = "sap_getMember" /\ cl'[c].tasks[slot] # t)
         => cl'[c].currentMembership =
                IF members[t.pid][t.uid] # Null THEN members[t.pid][t.uid] ELSE "viewer"]_vars

\* setActiveProject has just resolved the role of a user without a record
RoleDefaultWitness ==
    \E c \in Clients : \E slot \in Slots :
        /\ cl[c].tasks[slot].pc = "sap_setMember"
        /\ members[cl[c].tasks[slot].pid][cl[c].tasks[slot].uid] = Null
        /\ cl[c].currentMembership = "viewer"

\* what setActiveProject maintains for the active project
ProjectScope(s) ==
    <<s.activeProjectId, s.lsActiveProjectId, s.projectDocRef, s.currentMembership,
      s.unsubscribeProject, s.unsubscribeMembers, s.unsubscribePendingInvites,
      s.pendingRemoteUpdates, s.ui,
      {<<l.kind, l.id, l.key>> : l \in {x \in s.live : x.kind # "incoming"}}>>

\* this step of client c calls setActiveProject with the id that is already
\* active: from acceptInvite, or from resolveActiveProject with the remembered id
SameIdCall(c) ==
    \/ LET t == cl[c].tasks["accept"] IN
        /\ t.pc = "acc_updateInvite" /\ cl'[c].tasks["accept"] # t
        /\ cl[c].currentUser # Null /\ cl[c].activeProjectId = t.pid
    \/ LET t == cl[c].tasks["init"] IN
        /\ t.pc = "rap_getDoc" /\ cl'[c].tasks["init"] # t
        /\ projects[t.pid].exists
        /\ cl[c].currentUser # Null /\ cl[c].activeProjectId = t.pid

AtMostOneListenerPerKind ==
    \A c \in Clients : \A kind \in {"project", "members", "pending"} :
        Cardinality(LiveOf(cl[c], kind)) <= 1

\* C9 (P3, idempotent project switch): a call of setActiveProject with the id
\* that is already active changes nothing of the project scope and creates no
\* listener, and in every state, whatever calls have run or are suspended, at
\* most one project, one members and one pending-invites listener are live.
IdempotentSwitch ==
    /\ []AtMostOneListenerPerKind
    /\ [][\A c \in Clients :
            SameIdCall(c) => ProjectScope(cl'[c]) = ProjectScope(cl[c])]_vars

\* u1 has accepted an invite to the own, already active project
IdempotentSwitchWitness ==
    \E i \in InviteIds :
        /\ invites[i].exists /\ invites[i].projectId = PersonalId("u1")
        /\ invites[i].invitedEmail = TrimLower(EmailOf("u1"))
        /\ invites[i].status = "accepted"
        /\ cl["c1"].currentUser = "u1"
        /\ cl["c1"].tasks["accept"].pc = "idle"
        /\ cl["c1"].activeProjectId = PersonalId("u1")
        /\ Cardinality(LiveOf(cl["c1"], "project")) = 1

\* this step of client c enters setActiveProject for another project
SwitchStep(c, slot) ==
    cl[c].tasks[slot].pc # "sap_getDoc" /\ cl'[c].tasks[slot].pc = "sap_getDoc"

\* C10 (teardown before re-subscription): the step in which setActiveProject
\* switches to another project leaves no listener of the session live, and in
\* no state two project listeners for different projects are live in a session.
TeardownBeforeSubscribe ==
    /\ [][\A c \in Clients : \A slot \in Slots :
            SwitchStep(c, slot) => cl'[c].live = {}]_vars
    /\ [](\A c \in Clients : \A l1, l2 \in LiveOf(cl[c], "project") : l1.key = l2.key)

\* u2 has accepted the invite and setActiveProject has switched from the
\* personal project to the project of u1, the reads still outstanding
TeardownBeforeSubscribeWitness ==
    /\ cl["c2"].currentUser = "u2"
    /\ cl["c2"].tasks["accept"].pc = "sap_getDoc"
    /\ cl["c2"].activeProjectId = PersonalId("u1")
    /\ cl["c2"].lsActiveProjectId = PersonalId("u1")
    /\ cl["c2"].live = {}

----------------------------------------------------------------------------
(* Properties of the input listener and the flush (C11..C15) *)

\* this step is the input listener of client c handling an input event
InputEventStep(c) == Len(cl'[c].editLog) = Len(cl[c].editLog) + 1

\* C11: an input event handled while isApplyingRemoteData is true does nothing
\* for synchronisation: the pending edit buffer, the issued and in-flight
\* updates, both throttle timers and their last-run times, and the local
\* storage copy are all as before.
GuardedInputIsNoOp ==
    [][\A c \in Clients :
         (InputEventStep(c) /\ cl[c].isApplyingRemoteData)
         => /\ cl'[c].pendingRemoteUpdates = cl[c].pendingRemoteUpdates
            /\ cl'[c].sent = cl[c].sent
            /\ cl'[c].outbox = cl[c].outbox
            /\ cl'[c].fsTimer = cl[c].fsTimer /\ cl'[c].fsLast = cl[c].fsLast
            /\ cl'[c].lsTimer = cl[c].lsTimer /\ cl'[c].lsLast = cl[c].lsLast
            /\ cl'[c].lsData = cl[c].lsData]_vars

\* the signed-in session has handled an input event while the flag was set
GuardedInputIsNoOpWitness ==
    /\ cl["c1"].isApplyingRemoteData
    /\ cl["c1"].currentUser = "u1" /\ cl["c1"].activeProjectId = PersonalId("u1")
    /\ Len(cl["c1"].editLog) = 1
    /\ cl["c1"].ui[cl["c1"].editLog[1].f] = cl["c1"].editLog[1].v

\* this step issues an updateDoc from the flush of client c
FlushIssued(c) == cl'[c].sent # cl[c].sent

\* this step is the trailing timer of throttledFirestoreSave firing in client c
FlushTimerStep(c) == cl[c].fsTimer # NoTimer /\ cl'[c].fsTimer = NoTimer

\* C12 (guarded flush): a step issues a remote update only in a session that
\* has a signed-in user and an active project and only with a non-empty
\* payload; and a flush timer that fires while no user is signed in, or no
\* project is active, or the buffer is empty issues nothing and leaves the
\* buffer alone.
GuardedFlush ==
    [][\A c \in Clients :
         /\ FlushIssued(c)
            => /\ cl[c].currentUser # Null /\ cl'[c].currentUser # Null
               /\ cl[c].activeProjectId # Null
               /\ DOMAIN cl'[c].sent[Len(cl'[c].sent)].updates # {}
         /\ ( /\ FlushTimerStep(c)
              /\ \/ cl[c].currentUser = Null \/ cl[c].activeProjectId = Null
                 \/ DOMAIN cl[c].pendingRemoteUpdates = {} )
            => /\ ~FlushIssued(c)
               /\ cl'[c].outbox = cl[c].outbox
               /\ cl'[c].pendingRemoteUpdates = cl[c].pendingRemoteUpdates]_vars

\* u2 has edited, signed out with the flush timer armed, and the timer has
\* fired in the signed-out session
GuardedFlushWitness ==
    /\ cl["c2"].currentUser = Null
    /\ cl["c2"].editLog # <<>>
    /\ cl["c2"].fsTimer = NoTimer
    /\ cl["c2"].fsLast > cl["c2"].editLog[Len(cl["c2"].editLog)].at

\* the pending edit buffer of client c at the moment the flush of this step
\* runs: the buffer before the step, with the edit of this step when the step
\* is an input event
BufferAtFlush(c) ==
    IF InputEventStep(c)
    THEN LET e == cl'[c].editLog[Len(cl'[c].editLog)]
         IN [g \in DOMAIN cl[c].pendingRemoteUpdates \cup {e.f} |->
                IF g = e.f THEN e.v ELSE cl[c].pendingRemoteUpdates[g]]
    ELSE cl[c].pendingRemoteUpdates

\* C13 (flush payload): a step that flushes issues exactly one update, addressed
\* to the active project's document, whose field keys are exactly the field ids
\* buffered at flush time, each with its latest buffered value, together with
\* updatedAt = serverTimestamp() and lastEditor = the signed-in user; in the
\* state after the step the buffer is empty while the update is still in flight.
FlushPayload ==
    [][\A c \in Clients :
         FlushIssued(c)
         => LET req == [ref |-> cl[c].projectDocRef, updates |-> BufferAtFlush(c),
                        updatedAt |-> ServerTimestamp,
                        lastEditor |-> cl[c].currentUser]
            IN /\ cl'[c].sent = Append(cl[c].sent, req)
               /\ cl'[c].outbox = Append(cl[c].outbox, req)
               /\ DOMAIN req.updates # {}
               /\ req.ref = cl[c].activeProjectId
               /\ cl'[c].pendingRemoteUpdates = EmptyUpdates]_vars

\* a flush has just sent two buffered fields in one update, which is still in
\* flight, and the buffer is empty
FlushPayloadWitness ==
    /\ cl["c1"].sent # <<>>
    /\ DOMAIN cl["c1"].sent[Len(cl["c1"].sent)].updates = FieldIds
    /\ cl["c1"].outbox # <<>>
    /\ cl["c1"].outbox[Len(cl["c1"].outbox)] = cl["c1"].sent[Len(cl["c1"].sent)]
    /\ cl["c1"].pendingRemoteUpdates = EmptyUpdates

\* the indices of the edits of client c to field f, and of the issued updates
\* that carry field f
EditsOf(c, f) == {i \in 1..Len(cl[c].editLog) : cl[c].editLog[i].f = f}
SentWith(c, f) == {i \in 1..Len(cl[c].sent) : f \in DOMAIN cl[c].sent[i].updates}
MaxOf(S) == CHOOSE i \in S : \A j \in S : j <= i

\* the latest edit of field f by client c is waiting in the buffer with the
\* flush timer armed, or the latest issued update for f carries it
LatestEditKept(c, f) ==
    LET v == cl[c].editLog[MaxOf(EditsOf(c, f))].v IN
    IF f \in DOMAIN cl[c].pendingRemoteUpdates
    THEN cl[c].pendingRemoteUpdates[f] = v /\ cl[c].fsTimer # NoTimer
    ELSE /\ SentWith(c, f) # {}
         /\ cl[c].sent[MaxOf(SentWith(c, f))].updates[f] = v

\* this step is the completion of the oldest in-flight update of client c
FlushCompletedStep(c) ==
    cl[c].outbox # <<>> /\ cl'[c].outbox = Tail(cl[c].outbox)

\* C14: an edit made while an update is in flight is recorded in the buffer
\* (or goes out in a flush of its own); the completion of the in-flight update
\* leaves the buffer, the timer and the issued updates untouched; and at every
\* moment the latest edit of each field is either buffered with the timer armed
\* or carried by the latest update issued for that field.
EditDuringFlushKept ==
    /\ [](\A c \in Clients : \A f \in FieldIds :
            EditsOf(c, f) # {} => LatestEditKept(c, f))
    /\ [][\A c \in Clients :
            /\ FlushCompletedStep(c)
               => /\ cl'[c].pendingRemoteUpdates = cl[c].pendingRemoteUpdates
                  /\ cl'[c].fsTimer = cl[c].fsTimer
                  /\ cl'[c].sent = cl[c].sent
            /\ (InputEventStep(c) /\ cl[c].outbox # <<>>)
               => LET e == cl'[c].editLog[Len(cl'[c].editLog)]
                  IN \/ /\ e.f \in DOMAIN cl'[c].pendingRemoteUpdates
                        /\ cl'[c].pendingRemoteUpdates[e.f] = e.v
                     \/ /\ FlushIssued(c)
                        /\ cl'[c].sent[Len(cl'[c].sent)].updates[e.f] = e.v]_vars

\* the first edit went out at once and its update is still in flight; a second
\* edit, made meanwhile, is in the buffer and the flush timer is armed (every
\* flush empties the buffer, so what is buffered was typed after the update
\* still in flight had been issued)
EditDuringFlushKeptWitness ==
    LET log == cl["c1"].editLog
        e == log[Len(log)]
    IN /\ Len(log) = 2 /\ Len(cl["c1"].sent) = 1
       /\ cl["c1"].outbox = cl["c1"].sent
       /\ cl["c1"].pendingRemoteUpdates = OnlyField(e.f, e.v)
       /\ cl["c1"].fsTimer # NoTimer

\* C15 (no data loss), in the form a finite run refutes: no step drops a
\* buffered edit. Every field that is in the pending edit buffer of a signed-in
\* client with an active project before a step is, after the step, still in the
\* buffer or contained in the update the step has issued. (An edit dropped
\* from the buffer is in no later update: nothing else remembers it.)
NoBufferedEditDropped ==
    [][\A c \in Clients : \A f \in DOMAIN cl[c].pendingRemoteUpdates :
         (cl[c].currentUser # Null /\ cl[c].activeProjectId # Null)
         => \/ f \in DOMAIN cl'[c].pendingRemoteUpdates
            \/ /\ FlushIssued(c)
               /\ f \in DOMAIN cl'[c].sent[Len(cl'[c].sent)].updates]_vars

----------------------------------------------------------------------------
(* Properties of the snapshot callback (C16..C18) *)

\* C16 (applying a remote snapshot): when the project listener has processed
\* the snapshot of an existing document, every field on screen holds the
\* snapshot's value for its id, or the empty string when the snapshot has no
\* value for it or no fields map at all; a field that already held that value
\* is left as it was.
SnapshotApplied ==
    [][\A c \in Clients : \A l \in cl[c].live :
         (ProjectCallbackStep(c, l) /\ projects[l.key].exists)
         => \A f \in FieldIds :
               /\ cl'[c].ui[f] = IF "fields" \in DOMAIN projects[l.key]
                                    /\ f \in DOMAIN projects[l.key].fields
                                 THEN projects[l.key].fields[f] ELSE ""
               /\ cl[c].ui[f] = RemoteValue(projects[l.key], f)
                  => cl'[c].ui[f] = cl[c].ui[f]]_vars

\* a document without a fields map has replaced a document that had values,
\* and the listener has delivered it: the screen is blank
SnapshotAppliedWitness ==
    /\ projects[PersonalId("u1")] = NoFieldsDoc
    /\ userActions >= 2
    /\ \A l \in LiveOf(cl["c1"], "project") : ~l.dirty
    /\ cl["c1"].ui = BlankFields

\* C17 (the guard is transient): isApplyingRemoteData is false in every state
\* between two handlers, that is in every state in which a user edit, a timer
\* or another callback can run; it is true only inside the snapshot callback.
GuardIsTransient ==
    \A c \in Clients : ~cl[c].isApplyingRemoteData

\* the project listener has put a collaborator's value on the screen of c1
\* (c1 has typed nothing) and the flag is down again
GuardIsTransientWitness ==
    /\ cl["c1"].editLog = <<>>
    /\ cl["c1"].ui # BlankFields
    /\ cl["c1"].ui = projects[PersonalId("u1")].fields
    /\ ~cl["c1"].isApplyingRemoteData

\* C18 (Scenario D, no echo across clients): with the same user signed in on
\* two clients in one project, the step in which a client's project listener
\* receives the document another client has written puts the document's values
\* on that client's screen, leaves its pending edit buffer as it was and issues
\* no remote write and arms no flush.
NoEchoAcrossClients ==
    [][\A c \in Clients : \A l \in cl[c].live :
         (ProjectCallbackStep(c, l) /\ projects[l.key].exists)
         => /\ \A f \in FieldIds : cl'[c].ui[f] = projects[l.key].fields[f]
            /\ cl'[c].pendingRemoteUpdates = cl[c].pendingRemoteUpdates
            /\ cl'[c].sent = cl[c].sent
            /\ cl'[c].outbox = cl[c].outbox
            /\ cl'[c].fsTimer = cl[c].fsTimer
            /\ cl'[c].fsLast = cl[c].fsLast]_vars

\* c2 holds an edit of its own in the buffer; c1 has written a new value for the
\* other field, the store has applied it, and c2 has received the snapshot: c2
\* shows c1's value, its buffer still holds its own edit and it has issued
\* nothing beyond its own first flush
NoEchoAcrossClientsWitness ==
    /\ Len(cl["c1"].editLog) = 1 /\ Len(cl["c2"].editLog) = 2
    /\ Len(cl["c1"].sent) = 1 /\ cl["c1"].outbox = <<>>
    /\ cl["c1"].editLog[1].v # ""
    /\ projects[PersonalId("u1")].fields["problem"] = cl["c1"].editLog[1].v
    /\ \A l \in LiveOf(cl["c2"], "project") : ~l.dirty
    /\ cl["c2"].ui["problem"] = cl["c1"].editLog[1].v
    /\ cl["c2"].pendingRemoteUpdates = OnlyField("solution", cl["c2"].editLog[2].v)
    /\ Len(cl["c2"].sent) = 1

----------------------------------------------------------------------------
(* Properties of the initialisation and of the accept flow (C19, C20) *)

\* the user resolveActiveProject(user) was called for
ResolveUser(c) == cl[c].tasks["init"].user

\* this step resumes resolveActiveProject of client c from its getDoc
ResolveResumeStep(c) ==
    /\ cl[c].tasks["init"].pc = "rap_getDoc"
    /\ cl'[c].tasks["init"] # cl[c].tasks["init"]

\* this step calls resolveActiveProject in client c with nothing remembered
ResolveFreshStep(c) ==
    /\ cl[c].tasks["init"].pc = "eop_setMember"
    /\ cl'[c].tasks["init"].pc # "eop_setMember"
    /\ cl[c].lsActiveProjectId = Null

\* C19 (resolveActiveProject), for a user who is still signed in when the call
\* decides: a remembered project that exists becomes the active project; a
\* remembered project that does not exist is removed from local storage and
\* the personal project of the user becomes the active project; with nothing
\* remembered the personal project becomes the active project.
ResolveOutcome ==
    [][\A c \in Clients :
         LET t == cl[c].tasks["init"] IN
         /\ (ResolveResumeStep(c) /\ cl[c].currentUser # Null
                /\ cl[c].currentUser = ResolveUser(c))
            => IF projects[t.pid].exists
               THEN /\ cl'[c].activeProjectId = t.pid
                    /\ cl'[c].lsRemoved = cl[c].lsRemoved
               ELSE /\ cl'[c].activeProjectId = PersonalId(ResolveUser(c))
                    /\ t.pid \in cl'[c].lsRemoved
                    /\ cl'[c].lsActiveProjectId # t.pid
         /\ (ResolveFreshStep(c) /\ cl[c].currentUser # Null
                /\ cl[c].currentUser = ResolveUser(c))
            => cl'[c].activeProjectId = PersonalId(ResolveUser(c))]_vars

\* u1 has signed in on a browser that remembered the personal project of u2,
\* which does not exist: the id has been removed and u1 works in u1-personal
ResolveOutcomeWitness ==
    /\ cl["c1"].currentUser = "u1"
    /\ cl["c1"].lsRemoved = {PersonalId("u2")}
    /\ ~projects[PersonalId("u2")].exists
    /\ cl["c1"].activeProjectId = PersonalId("u1")
    /\ cl["c1"].lsActiveProjectId = PersonalId("u1")
    /\ cl["c1"].tasks["init"].pc = "idle"

\* this step completes acceptInvite in client c without an exception, the same
\* user being signed in before and after it
AcceptDoneStep(c) ==
    /\ cl[c].tasks["accept"].pc \in
          {"acc_updateInvite", "sap_getDoc", "sap_getMember", "sap_setDoc", "sap_setMember"}
    /\ cl'[c].tasks["accept"].pc = "idle"
    /\ cl[c].currentUser # Null /\ cl'[c].currentUser = cl[c].currentUser

\* C20 (successful accept, Scenario C): the membership upsert comes first and
\* leaves the invite as it is, the status update comes second and is followed
\* by the project switch; and when acceptInvite completes, the user's
\* membership record in the invite's project has the invite's role, the invite
\* is accepted and the active project is the invite's project.
AcceptOutcome ==
    [][\A c \in Clients :
         LET t == cl[c].tasks["accept"] IN
         /\ (t.pc = "acc_setMember" /\ cl'[c].tasks["accept"].pc = "acc_updateInvite")
            => /\ members'[t.pid][t.uid] = t.role
               /\ invites'[t.inv].status = invites[t.inv].status
         /\ (t.pc = "acc_updateInvite" /\ cl'[c].tasks["accept"].pc # "acc_updateInvite")
            => /\ invites'[t.inv].status = "accepted"
               /\ members' = members
               /\ cl[c].currentUser # Null => cl'[c].activeProjectId = t.pid
         /\ AcceptDoneStep(c)
            => /\ members'[t.pid][cl[c].currentUser] = t.role
               /\ invites'[t.inv].status = "accepted"
               /\ cl'[c].activeProjectId = t.pid]_vars

----------------------------------------------------------------------------
(* Properties of the accept flow under failing remote operations (C21, C22) *)

\* this step ends acceptInvite of client c in its catch block: a remote
\* operation it awaited, directly or inside setActiveProject, was rejected
AcceptFailedStep(c) ==
    /\ cl[c].tasks["accept"].pc # "idle"
    /\ cl[c].currentUser # Null
    /\ cl'[c].tasks["accept"].pc = "idle"
    /\ Len(cl'[c].acceptLog) = Len(cl[c].acceptLog) + 1
    /\ cl'[c].acceptLog[Len(cl'[c].acceptLog)].end # "done"

\* C21 (failed accept leaves the invite pending): when a remote operation of
\* acceptInvite fails (the membership upsert, the status update, or a read or
\* write of the project switch that follows), the invite's status is pending
\* afterwards.
FailedAcceptLeavesPending ==
    [][\A c \in Clients :
         AcceptFailedStep(c)
         => invites'[cl[c].tasks["accept"].inv].status = Pending]_vars

\* the store and the session of u2 on c2 after u2 has accepted the first invite
AcceptedState ==
    /\ members = [p \in ProjectIds |->
                    [u \in Users |->
                        IF PersonalId(u) = p THEN "owner"
                        ELSE IF p = FirstInvite.projectId /\ u = "u2"
                        THEN FirstInvite.role ELSE Null]]
    /\ invites = [i \in InviteIds |->
                    IF i = 1 THEN [FirstInvite EXCEPT !.status = "accepted"]
                    ELSE NoInvite]
    /\ cl["c2"].currentUser = "u2"
    /\ cl["c2"].activeProjectId = FirstInvite.projectId
    /\ cl["c2"].projectDocRef = FirstInvite.projectId
    /\ cl["c2"].lsActiveProjectId = FirstInvite.projectId
    /\ cl["c2"].currentMembership = FirstInvite.role
    /\ {l.kind : l \in {k \in cl["c2"].live : k.key = FirstInvite.projectId}}
          = {"project", "members"}

\* u2 has done nothing but accept the invite once, successfully
SingleAccept ==
    /\ userActions = 1
    /\ cl["c2"].acceptLog = <<[inv |-> 1, end |-> "done"]>>

\* u2 has done nothing but accept the invite twice: the first call failed at
\* the status update, after its membership upsert, and the second succeeded
RetriedAccept ==
    /\ userActions = 2
    /\ cl["c2"].acceptLog = <<[inv |-> 1, end |-> "acc_updateInvite"],
                              [inv |-> 1, end |-> "done"]>>

\* C22 (accept is re-processable after a partial failure): the accept that
\* succeeds after an accept whose membership upsert succeeded and whose status
\* update failed ends in the state a single successful accept ends in: u2 has
\* one membership record in the invite's project, with the invite's role, the
\* invite is accepted and the invite's project is active.
RetriedAcceptSameAsSingle ==
    (SingleAccept \/ RetriedAccept) => AcceptedState

\* the retried accept has completed
RetriedAcceptSameAsSingleWitness ==
    RetriedAccept /\ AcceptedState

\* ---------------------------------------------------------------------------
\* Owner-gated pending-invites subscription
\* ---------------------------------------------------------------------------

\* a members snapshot is delivered to client c and changes its cached role
RoleChangedBySnapshot(c) ==
    /\ \E l \in LiveOf(cl[c], "members") :
          l.dirty /\ [l EXCEPT !.dirty = FALSE] \in cl'[c].live
    /\ cl'[c].currentMembership # cl[c].currentMembership

\* when a members snapshot changes the cached role, subscribeToPendingInvites
\* runs in the same callback: an owner holds a listener afterwards, any other
\* role holds none
RoleChangeReevaluatesPending ==
    [][\A c \in Clients :
         RoleChangedBySnapshot(c)
         => (cl'[c].currentMembership = "owner"
               <=> LiveOf(cl'[c], "pending") # {})]_vars

\* C23 (owner-gated pending-invites subscription): in every reachable state a
\* client holds a live pending-invites listener only if a user is signed in
\* and the role the client holds for the active project is owner.
PendingListenerOwnerOnly ==
    \A c \in Clients :
        LiveOf(cl[c], "pending") # {}
        => /\ cl[c].currentUser # Null
           /\ cl[c].currentMembership = "owner"

\* ---------------------------------------------------------------------------
\* Incoming-invites watch
\* ---------------------------------------------------------------------------

\* session s holds a live listener on the pending invites addressed to the
\* lower-cased email of its signed-in user
WatchesIncoming(s) ==
    /\ s.currentUser # Null
    /\ \E l \in LiveOf(s, "incoming") : l.key = TrimLower(EmailOf(s.currentUser))

\* C24 (incoming-invite watch): once initialization has installed the
\* listener on the invites addressed to the signed-in user, the client holds
\* it in every state until that user signs out, also across a switch of the
\* active project: no step that keeps the signed-in user removes it.
IncomingWatchKept ==
    [][\A c \in Clients :
         (WatchesIncoming(cl[c]) /\ cl'[c].currentUser = cl[c].currentUser)
         => WatchesIncoming(cl'[c])]_vars

\* ---------------------------------------------------------------------------
\* Edits of a guest session
\* ---------------------------------------------------------------------------

\* this step writes the local copy of client c: saveLocalData has run
LocalSaveStep(c) == cl'[c].lsData # cl[c].lsData

\* C25 (unauthenticated edits stay local): while no user is signed in, an
\* input event adds nothing to the pending remote buffer, issues no remote
\* update and leaves the store alone; it runs the throttled local save (the
\* copy is written in the same step or the trailing timer is armed within
\* LocalWait); and every write of the local copy in a guest session puts
\* under the guest key the map from every field id to the value on screen,
\* leaving the other keys alone.
GuestEditsStayLocal ==
    [][\A c \in Clients :
         /\ (InputEventStep(c) /\ cl[c].currentUser = Null)
            => /\ cl'[c].pendingRemoteUpdates = cl[c].pendingRemoteUpdates
               /\ cl'[c].sent = cl[c].sent
               /\ cl'[c].outbox = cl[c].outbox
               /\ cl'[c].fsTimer = cl[c].fsTimer
               /\ projects' = projects
               /\ ~cl[c].isApplyingRemoteData
                  => \/ /\ GuestScope \in DOMAIN cl'[c].lsData
                        /\ cl'[c].lsData[GuestScope] = cl'[c].ui
                        /\ cl'[c].lsLast = now
                     \/ /\ cl'[c].lsTimer # NoTimer
                        /\ cl'[c].lsTimer <= now + LocalWait
         /\ (LocalSaveStep(c) /\ cl[c].currentUser = Null)
            => /\ DOMAIN cl'[c].lsData = DOMAIN cl[c].lsData \cup {GuestScope}
               /\ DOMAIN cl'[c].lsData[GuestScope] = FieldIds
               /\ \A f \in FieldIds : cl'[c].lsData[GuestScope][f] = cl'[c].ui[f]
               /\ \A k \in DOMAIN cl[c].lsData \ {GuestScope} :
                      cl'[c].lsData[k] = cl[c].lsData[k]]_vars

\* a guest has edited one field and left the other untouched; the local copy
\* under the guest key holds the edited value and the empty string, and
\* nothing was buffered or sent
GuestEditsStayLocalWitness ==
    /\ cl["c1"].currentUser = Null
    /\ Len(cl["c1"].editLog) >= 2
    /\ cl["c1"].lsTimer = NoTimer
    /\ GuestScope \in DOMAIN cl["c1"].lsData
    /\ cl["c1"].lsData[GuestScope] = cl["c1"].ui
    /\ cl["c1"].ui["problem"] # ""
    /\ cl["c1"].ui["solution"] = ""
    /\ \A i \in 1..Len(cl["c1"].editLog) : cl["c1"].editLog[i].f = "problem"
    /\ cl["c1"].pendingRemoteUpdates = EmptyUpdates
    /\ cl["c1"].sent = <<>>

\* ---------------------------------------------------------------------------
\* A rejected remote update
\* ---------------------------------------------------------------------------

\* this step is the catch block of persistRemoteUpdates in client c
FlushFailedStep(c) == Len(cl'[c].failLog) = Len(cl[c].failLog) + 1

\* the fields of the rejected update e that the user has edited again: they
\* were in the buffer when the update was rejected (the flush had emptied the
\* buffer when it issued the update), or an input event came after it
EditedAgain(c, e) ==
    e.buf \cup {cl[c].editLog[i].f : i \in (e.nEdits + 1)..Len(cl[c].editLog)}

\* C26 (a failed flush drops its edits from the retry path): the step in which
\* an update is rejected leaves the buffer, the values on screen, the issued
\* updates, the flush timer and the store as they are; and an update issued
\* after the rejection carries a field of the rejected update only if the
\* user has edited that field again.
FailedFlushNotRetried ==
    /\ [](\A c \in Clients :
            \A n \in 1..Len(cl[c].failLog) :
              LET e == cl[c].failLog[n] IN
              \A j \in (e.nSent + 1)..Len(cl[c].sent) :
                 DOMAIN cl[c].sent[j].updates \cap DOMAIN e.req.updates
                     \subseteq EditedAgain(c, e))
    /\ [][\A c \in Clients :
            FlushFailedStep(c)
            => /\ cl'[c].pendingRemoteUpdates = cl[c].pendingRemoteUpdates
               /\ cl'[c].ui = cl[c].ui
               /\ cl'[c].sent = cl[c].sent
               /\ cl'[c].fsTimer = cl[c].fsTimer
               /\ projects' = projects]_vars

\* the update carrying the user's edit of "problem" was rejected; the user
\* then edited "solution" only, and the update for it, which does not carry
\* "problem", has been applied: the store holds the new "solution" and still
\* the old "problem"
FailedFlushNotRetriedWitness ==
    /\ Len(cl["c1"].failLog) = 1
    /\ DOMAIN cl["c1"].failLog[1].req.updates = {"problem"}
    /\ cl["c1"].failLog[1].req.updates["problem"] # ""
    /\ cl["c1"].failLog[1].nSent = 1
    /\ Len(cl["c1"].sent) = 2
    /\ DOMAIN cl["c1"].sent[2].updates = {"solution"}
    /\ cl["c1"].outbox = <<>>
    /\ cl["c1"].pendingRemoteUpdates = EmptyUpdates
    /\ projects[PersonalId("u1")].fields["problem"] = ""
    /\ projects[PersonalId("u1")].fields["solution"] = cl["c1"].sent[2].updates["solution"]

\* the input event handled in this step was buffered and handed to the
\* throttled flush: its value went out in an update to the active project in
\* the same step, or it waits in the buffer with the flush timer armed
EditBufferedAndFlushed(c) ==
    LET e == cl'[c].editLog[Len(cl'[c].editLog)] IN
    \/ /\ Len(cl'[c].sent) = Len(cl[c].sent) + 1
       /\ cl'[c].sent[Len(cl'[c].sent)].ref = cl[c].activeProjectId
       /\ e.f \in DOMAIN cl'[c].sent[Len(cl'[c].sent)].updates
       /\ cl'[c].sent[Len(cl'[c].sent)].updates[e.f] = e.v
       /\ cl'[c].outbox = Append(cl[c].outbox, cl'[c].sent[Len(cl'[c].sent)])
    \/ /\ cl'[c].sent = cl[c].sent
       /\ e.f \in DOMAIN cl'[c].pendingRemoteUpdates
       /\ cl'[c].pendingRemoteUpdates[e.f] = e.v
       /\ cl'[c].fsTimer # NoTimer
       /\ cl'[c].fsTimer <= now + RemoteWait

\* C27 (a failed remote write does not end synchronisation): the step in
\* which an update is rejected leaves the signed-in user, the active project,
\* the document reference and the listeners as they are, and an input event
\* that follows a rejection is buffered and flushed as any other.
FailedFlushKeepsSession ==
    [][\A c \in Clients :
         /\ FlushFailedStep(c)
            => /\ cl'[c].currentUser = cl[c].currentUser
               /\ cl'[c].currentUser # Null
               /\ cl'[c].activeProjectId = cl[c].activeProjectId
               /\ cl'[c].projectDocRef = cl[c].projectDocRef
               /\ cl'[c].currentMembership = cl[c].currentMembership
               /\ cl'[c].live = cl[c].live
               /\ cl'[c].unsubscribeProject = cl[c].unsubscribeProject
               /\ cl'[c].unsubscribeMembers = cl[c].unsubscribeMembers
               /\ cl'[c].unsubscribePendingInvites = cl[c].unsubscribePendingInvites
               /\ cl'[c].unsubscribeIncomingInvites = cl[c].unsubscribeIncomingInvites
         /\ (InputEventStep(c) /\ cl[c].failLog # <<>>)
            => EditBufferedAndFlushed(c)]_vars

\* after a rejected update the user has edited a field, and the value of that
\* edit has reached the store through the throttled flush
FailedFlushKeepsSessionWitness ==
    /\ Len(cl["c1"].failLog) = 1
    /\ Len(cl["c1"].editLog) = cl["c1"].failLog[1].nEdits + 1
    /\ Len(cl["c1"].sent) = cl["c1"].failLog[1].nSent + 1
    /\ cl["c1"].editLog[Len(cl["c1"].editLog)].at < now
    /\ cl["c1"].outbox = <<>>
    /\ LET e == cl["c1"].editLog[Len(cl["c1"].editLog)]
       IN /\ e.v # ""
          /\ projects[PersonalId("u1")].fields[e.f] = e.v
    /\ Cardinality(LiveOf(cl["c1"], "project")) = 1

----------------------------------------------------------------------------
(* callGeminiAPI: one request to the proxy, retried once on status 429 *)

MaxApiCalls == 2

\* the responses of the proxy: a status and, for a 2xx status, what the body
\* holds (a candidate text, a candidate without text, no JSON at all)
ProxyStatuses == {200, 400, 403, 429, 500, 503}
ProxyResponses ==
    {[status |-> s, body |-> b] :
        s \in ProxyStatuses, b \in {"text", "empty", "nojson"}}
    \ {[status |-> s, body |-> b] :
        s \in ProxyStatuses \ {200}, b \in {"text", "nojson"}}

NoOutcome == [ok |-> FALSE, msg |-> "", cause |-> ""]
IdleCall ==
    [pc |-> "idle", retryCount |-> 0, reqs |-> <<>>, resps |-> <<>>,
     outcome |-> NoOutcome]

\* the call returns { text, sources }
Returned(a) ==
    [a EXCEPT !.pc = "done", !.outcome = [ok |-> TRUE, msg |-> "text", cause |-> ""]]

\* the catch block of callGeminiAPI for an error thrown with message msg: the
\* three messages of the function itself are passed on, any other error is
\* wrapped into the connection error
Thrown(a, msg) ==
    [a EXCEPT !.pc = "done",
              !.outcome =
                  IF msg \in {"overloaded", "rejected", "invalid"}
                  THEN [ok |-> FALSE, msg |-> msg, cause |-> ""]
                  ELSE [ok |-> FALSE, msg |-> "connection", cause |-> msg]]

\* a mutant of onProxyResponse: status 429 is retried a second time
onProxyResponseRetryTwice(a, r) ==
    LET a1 == [a EXCEPT !.resps = Append(@, r)] IN
    IF r.status = 429
    THEN IF a.retryCount < 2 THEN [a1 EXCEPT !.pc = "wait"]
         ELSE Thrown(a1, "overloaded")
    ELSE IF r.status = 403 THEN Thrown(a1, "rejected")
    ELSE IF r.status = 400 THEN Thrown(a1, "invalid")
    ELSE IF ~(r.status >= 200 /\ r.status <= 299) THEN Thrown(a1, "api-error")
    ELSE IF r.body = "nojson" THEN Thrown(a1, "parse")
    ELSE IF r.body = "empty" THEN Thrown(a1, "no-answer")
    ELSE Returned(a1)

\* a mutant of onProxyResponse: a server error is retried like status 429
onProxyResponseRetryServerError(a, r) ==
    LET a1 == [a EXCEPT !.resps = Append(@, r)] IN
    IF r.status = 429 \/ r.status >= 500
    THEN IF a.retryCount < 1 THEN [a1 EXCEPT !.pc = "wait"]
         ELSE Thrown(a1, IF r.status = 429 THEN "overloaded" ELSE "api-error")
    ELSE IF r.status = 403 THEN Thrown(a1, "rejected")
    ELSE IF r.status = 400 THEN Thrown(a1, "invalid")
    ELSE IF ~(r.status >= 200 /\ r.status <= 299) THEN Thrown(a1, "api-error")
    ELSE IF r.body = "nojson" THEN Thrown(a1, "parse")
    ELSE IF r.body = "empty" THEN Thrown(a1, "no-answer")
    ELSE Returned(a1)

\* callGeminiAPI from the point where fetch has resolved with response r:
\* the dispatch on the status and the extraction of the text
onProxyResponse(a, r) ==
    LET a1 == [a EXCEPT !.resps = Append(@, r)] IN
    IF r.status = 429
    THEN IF a.retryCount < 1 THEN [a1 EXCEPT !.pc = "wait"]
         ELSE Thrown(a1, "overloaded")
    ELSE IF r.status = 403 THEN Thrown(a1, "rejected")
    ELSE IF r.status = 400 THEN Thrown(a1, "invalid")
    ELSE IF ~(r.status >= 200 /\ r.status <= 299) THEN Thrown(a1, "api-error")
    ELSE IF r.body = "nojson" THEN Thrown(a1, "parse")
    ELSE IF r.body = "empty" THEN Thrown(a1, "no-answer")
    ELSE Returned(a1)

\* the call of client c has settled: it is recorded and the slot is free
Settle(s, a) ==
    IF a.pc = "done"
    THEN [s EXCEPT !.api = IdleCall,
                   !.apiLog = Append(@, [reqs |-> a.reqs, resps |-> a.resps,
                                         outcome |-> a.outcome])]
    ELSE [s EXCEPT !.api = a]

\* a feature of the page calls callGeminiAPI(prompt, 0, useSearch): the
\* request is built and fetch is awaited
CallGeminiAPI(c, useSearch) ==
    /\ cl[c].api.pc = "idle"
    /\ Len(cl[c].apiLog) < MaxApiCalls
    /\ cl' = [cl EXCEPT ![c].api =
                [IdleCall EXCEPT !.pc = "fetch",
                                 !.reqs = <<[useSearch |-> useSearch, retryCount |-> 0]>>]]
    /\ UNCHANGED <<projects, members, invites, now, userActions>>

\* fetch resolves with response r
ProxyResponse(c, r) ==
    /\ cl[c].api.pc = "fetch"
    /\ cl' = [cl EXCEPT ![c] = Settle(@, onProxyResponse(cl[c].api, r))]
    /\ UNCHANGED <<projects, members, invites, now, userActions>>

\* fetch rejects: the proxy was not reached
FetchRejected(c) ==
    /\ cl[c].api.pc = "fetch"
    /\ cl' = [cl EXCEPT ![c] = Settle(@, Thrown(cl[c].api, "network"))]
    /\ UNCHANGED <<projects, members, invites, now, userActions>>

\* the two seconds after a 429 have passed: callGeminiAPI(userPrompt,
\* retryCount + 1) is called, useSearch taking its default, and its result is
\* the result of the outer call
RetryDelayElapsed(c) ==
    /\ cl[c].api.pc = "wait"
    /\ cl' = [cl EXCEPT ![c].api =
                [@ EXCEPT !.pc = "fetch",
                          !.retryCount = @ + 1,
                          !.reqs = Append(@, [useSearch |-> FALSE,
                                              retryCount |-> cl[c].api.retryCount + 1])]]
    /\ UNCHANGED <<projects, members, invites, now, userActions>>

ApiNext ==
    \/ \E b \in BOOLEAN : CallGeminiAPI("c1", b)
    \/ \E r \in ProxyResponses : ProxyResponse("c1", r)
    \/ FetchRejected("c1")
    \/ RetryDelayElapsed("c1")

ApiSpec == SyncInit /\ [][ApiNext]_vars

\* the calls of client c, completed or in progress
ApiCalls(c) ==
    {cl[c].apiLog[i] : i \in 1..Len(cl[c].apiLog)}
    \cup (IF cl[c].api.pc = "idle" THEN {}
          ELSE {[reqs |-> cl[c].api.reqs, resps |-> cl[c].api.resps,
                 outcome |-> cl[c].api.outcome]})

\* C28 (bounded retry on 429): whatever the proxy answers, one call sends at
\* most two requests; it sends a second request only after a first response
\* with status 429, and a completed call whose first response was 429 has
\* sent a second one; when the second response is a 2xx with a text the
\* caller gets the text, and when it is 429 again the call fails with the
\* "overloaded" error.
BoundedRetry ==
    /\ \A c \in Clients : \A e \in ApiCalls(c) :
          /\ Len(e.reqs) <= 2
          /\ Len(e.resps) <= Len(e.reqs)
          /\ Len(e.reqs) = 2 => e.resps[1].status = 429
    /\ \A c \in Clients : \A i \in 1..Len(cl[c].apiLog) :
          LET e == cl[c].apiLog[i] IN
          /\ (e.resps # <<>> /\ e.resps[1].status = 429) => Len(e.reqs) = 2
          /\ (Len(e.resps) = 2 /\ e.resps[2] = [status |-> 200, body |-> "text"])
                => e.outcome = [ok |-> TRUE, msg |-> "text", cause |-> ""]
          /\ (Len(e.resps) = 2 /\ e.resps[2].status = 429)
                => e.outcome = [ok |-> FALSE, msg |-> "overloaded", cause |-> ""]

\* one call was answered 429 and then succeeded, another was answered 429 twice
BoundedRetryWitness ==
    /\ Len(cl["c1"].apiLog) = 2
    /\ cl["c1"].apiLog[1].resps =
          <<[status |-> 429, body |-> "empty"], [status |-> 200, body |-> "text"]>>
    /\ cl["c1"].apiLog[1].outcome.ok
    /\ cl["c1"].apiLog[2].resps =
          <<[status |-> 429, body |-> "empty"], [status |-> 429, body |-> "empty"]>>
    /\ cl["c1"].apiLog[2].outcome.msg = "overloaded"
    /\ Len(cl["c1"].apiLog[2].reqs) = 2

\* the error a response with a non-2xx status other than 429 ends the call with
TerminalError(status) ==
    IF status = 403 THEN [ok |-> FALSE, msg |-> "rejected", cause |-> ""]
    ELSE IF status = 400 THEN [ok |-> FALSE, msg |-> "invalid", cause |-> ""]
    ELSE [ok |-> FALSE, msg |-> "connection", cause |-> "api-error"]

\* C29 (non-429 errors are terminal): a response with status 403, 400 or
\* another non-2xx status other than 429 is the last response of its call,
\* no request follows it, and the call fails with the error of that status
\* (rejected, invalid request, generic), on the first attempt and on the
\* retry alike.
NonRetryableIsTerminal ==
    \A c \in Clients : \A e \in ApiCalls(c) : \A k \in 1..Len(e.resps) :
        (e.resps[k].status # 429 /\ ~(e.resps[k].status >= 200 /\ e.resps[k].status <= 299))
        => /\ k = Len(e.resps)
           /\ Len(e.reqs) = k
           /\ e.outcome = TerminalError(e.resps[k].status)
           /\ e \in {cl[c].apiLog[i] : i \in 1..Len(cl[c].apiLog)}

\* a 403 on the first attempt and a server error on the retry have ended
\* their calls
NonRetryableIsTerminalWitness ==
    /\ Len(cl["c1"].apiLog) = 2
    /\ cl["c1"].apiLog[1].resps = <<[status |-> 403, body |-> "empty"]>>
    /\ cl["c1"].apiLog[1].outcome.msg = "rejected"
    /\ cl["c1"].apiLog[2].resps =
          <<[status |-> 429, body |-> "empty"], [status |-> 500, body |-> "empty"]>>
    /\ cl["c1"].apiLog[2].outcome = TerminalError(500)
    /\ Len(cl["c1"].apiLog[2].reqs) = 2

----------------------------------------------------------------------------
(* The target of remote writes *)

\* C30 (write target matches the active project): in every reachable state
\* in which both are set, projectDocRef refers to activeProjectId, and so
\* does the live project listener.
WriteTargetIsActiveProject ==
    \A c \in Clients :
        cl[c].activeProjectId # Null
        => /\ cl[c].projectDocRef # Null
              => cl[c].projectDocRef = cl[c].activeProjectId
           /\ \A l \in LiveOf(cl[c], "project") : l.key = cl[c].activeProjectId

\* an update issued by the flush goes to the project that is active; the
\* shortest run against it takes four user actions (sign-out, sign-in, accept,
\* edit), one more than MaxUserActions
EditsGoToActiveProject ==
    [][\A c \in Clients :
         FlushIssued(c)
         => cl'[c].sent[Len(cl'[c].sent)].ref = cl'[c].activeProjectId]_vars

----------------------------------------------------------------------------
(* The signed-out session *)

\* C31 (signed-out state is clean): while no user is signed in,
\* activeProjectId is null and no project, members, pending-invites or
\* incoming-invites listener is live, also when a call suspended at an await
\* resumes after the sign-out.
SignedOutIsClean ==
    \A c \in Clients :
        cl[c].currentUser = Null
        => /\ cl[c].activeProjectId = Null
           /\ cl[c].live = {}

----------------------------------------------------------------------------
(* The active project and its listener *)

\* the positions of a task inside setActiveProject
SetActiveProjectPcs == {"sap_getDoc", "sap_getMember", "sap_setDoc", "sap_setMember"}

\* no setActiveProject call of session s is in progress
NoSwitchInProgress(s) ==
    \A slot \in Slots : s.tasks[slot].pc \notin SetActiveProjectPcs

\* C32 (an active project is always synchronized): whenever a user is signed
\* in, activeProjectId is set and no setActiveProject call is in progress,
\* projectDocRef is set and a project listener on activeProjectId is live.
ActiveProjectIsSynchronized ==
    \A c \in Clients :
        (/\ cl[c].currentUser # Null
         /\ cl[c].activeProjectId # Null
         /\ NoSwitchInProgress(cl[c]))
        => /\ cl[c].projectDocRef # Null
           /\ \E l \in LiveOf(cl[c], "project") : l.key = cl[c].activeProjectId

----------------------------------------------------------------------------
(* finishProject and the owner of a project *)

\* the finish button: finishProject() writes the project with setDoc(...,
\* {merge: true}), ownerId being the signed-in user and fields the values on
\* screen, and arms the reload of the page
FinishProjectClick(c) ==
    LET s == cl[c]
        target == IF s.activeProjectId # Null THEN s.activeProjectId
                  ELSE PersonalId(s.currentUser)
    IN
    /\ s.currentUser # Null
    /\ s.appVisible
    /\ ~s.reloadPending
    /\ Budget
    /\ projects' = [projects EXCEPT ![target] =
                      [@ EXCEPT !.exists = TRUE,
                                !.ownerId = s.currentUser,
                                !.fields = getCurrentFieldValues(s)]]
    /\ cl' = [NotifyAll("project", target) EXCEPT ![c].reloadPending = TRUE]
    /\ userActions' = userActions + 1
    /\ UNCHANGED <<members, invites, now>>

\* window.location.reload(), two seconds after finishProject: the script
\* starts again, localStorage is kept, and onAuthStateChanged reports the
\* user the page was signed in with
PageReload(c) ==
    LET s == cl[c]
        fresh == [InitClient EXCEPT !.lsActiveProjectId = s.lsActiveProjectId,
                                    !.lsData = s.lsData,
                                    !.sent = s.sent,
                                    !.editLog = s.editLog,
                                    !.lsRemoved = s.lsRemoved,
                                    !.acceptLog = s.acceptLog,
                                    !.failLog = s.failLog,
                                    !.apiLog = s.apiLog]
    IN
    /\ s.reloadPending
    /\ cl' = [cl EXCEPT ![c] =
                IF s.currentUser = Null THEN fresh
                ELSE [fresh EXCEPT !.currentUser = s.currentUser,
                                   !.tasks["init"] =
                                       [IdleTask EXCEPT !.pc = "syncUserProfile",
                                                        !.origin = "init",
                                                        !.user = s.currentUser]]]
    /\ UNCHANGED <<projects, members, invites, now, userActions>>

\* the sessions on browser c2 with the finish button: u2 accepts the invite
\* and finishes the project
OwnerNext ==
    \/ AcceptNext
    \/ FinishProjectClick("c2")
    \/ PageReload("c2")

OwnerSpec == Init /\ [][OwnerNext]_vars

\* C33 (owner identity is immutable): no step changes the ownerId of a
\* project document that exists.
OwnerIdNeverChanges ==
    [][\A p \in ProjectIds :
         projects[p].exists => projects'[p].ownerId = projects[p].ownerId]_vars

----------------------------------------------------------------------------
(* The clear button *)

\* the click handler of the clear button: every field on screen is emptied
\* (no input event is fired), the local copy is removed, and a signed-in
\* session with a document reference issues the update that empties every
\* remote field
ClearClick(c) ==
    LET s == cl[c]
        req == [ref |-> s.projectDocRef, updates |-> BlankFields,
                updatedAt |-> ServerTimestamp, lastEditor |-> s.currentUser]
    IN
    /\ s.appVisible
    /\ Budget
    /\ cl' = [cl EXCEPT ![c] =
                [@ EXCEPT !.ui = BlankFields,
                          !.lsData = [k \in DOMAIN @ \ {storageKey(s)} |-> @[k]],
                          !.outbox = IF s.currentUser # Null /\ s.projectDocRef # Null
                                     THEN Append(@, req) ELSE @,
                          !.clearedAt = Len(s.editLog)]]
    /\ userActions' = userActions + 1
    /\ UNCHANGED <<projects, members, invites, now>>

\* editing, clearing and flushing in the session of u1
ClearNext ==
    \/ \E f \in FieldIds, v \in Values : Edit("c1", f, v)
    \/ ClearClick("c1")
    \/ FirestoreTimerFire("c1")
    \/ FlushApplied("c1")
    \/ \E l \in cl["c1"].live : ProjectSnapshot("c1", l)
    \/ Tick

ClearSpec == SyncInit /\ [][ClearNext]_vars

\* nothing is left to process in session c: no armed flush timer, no
\* buffered edit, no update in flight and no snapshot to deliver
Settled(c) ==
    /\ cl[c].fsTimer = NoTimer
    /\ cl[c].pendingRemoteUpdates = EmptyUpdates
    /\ cl[c].outbox = <<>>
    /\ \A l \in LiveOf(cl[c], "project") : ~l.dirty

\* the last action of the user of session c was a click on the clear button
ClearedLast(c) == cl[c].clearedAt = Len(cl[c].editLog)

\* C34 (clear is final): once a signed-in user has pressed the clear button
\* and made no edit since, no flush issues an update, and when every timer,
\* update and snapshot has been processed every field of the remote project
\* and of the screen is the empty string.
ClearIsFinal ==
    /\ [](\A c \in Clients :
            (ClearedLast(c) /\ cl[c].currentUser # Null
                /\ cl[c].projectDocRef # Null /\ Settled(c))
            => /\ cl[c].ui = BlankFields
               /\ projects[cl[c].projectDocRef].fields = BlankFields)
    /\ [][\A c \in Clients :
            (cl[c].clearedAt = Len(cl'[c].editLog)) => ~FlushIssued(c)]_vars

----------------------------------------------------------------------------
(* Convergence of the clients of one project *)

\* the project listener l of client c receives the current document, as in
\* ProjectSnapshot; the history notes the fields for which the session holds
\* an unflushed edit that the snapshot replaces on screen
ProjectSnapshotOverEdit(c, l) ==
    LET s == cl[c]
        hit == {f \in DOMAIN s.pendingRemoteUpdates :
                  /\ projects[l.key].exists
                  /\ s.ui[f] = s.pendingRemoteUpdates[f]
                  /\ projects[l.key].fields[f] # s.ui[f]}
    IN
    /\ l \in LiveOf(s, "project") /\ l.dirty
    /\ cl' = [cl EXCEPT ![c] =
                [(IF ~projects[l.key].exists THEN MarkDelivered(@, l)
                  ELSE applyRemoteSnapshot(MarkDelivered(@, l), projects[l.key]))
                    EXCEPT !.overwrote = @ \cup hit]]
    /\ UNCHANGED <<projects, members, invites, now, userActions>>

\* u1 works in the personal project on two browsers and edits the same field
\* on both; both flush and both listen
ConvergeNext ==
    \/ \E c \in Clients, v \in Values : Edit(c, "problem", v)
    \/ \E c \in Clients :
        \/ FirestoreTimerFire(c)
        \/ FlushApplied(c)
        \/ \E l \in cl[c].live : ProjectSnapshotOverEdit(c, l)
    \/ Tick

ConvergeSpec == TabsInit /\ [][ConvergeNext]_vars

\* C35 (eventual convergence): when every client of the project has nothing
\* left to process (no armed flush timer, no buffered edit, no update in
\* flight, no snapshot to deliver), the value on screen of every field equals
\* the remote value of that field, in each client.
SettledClientsAgree ==
    (\A c \in Clients : Settled(c))
    => \A c \in Clients : \A l \in LiveOf(cl[c], "project") :
          \A f \in FieldIds : cl[c].ui[f] = projects[l.key].fields[f]

\* both clients have settled on a non-empty value after a snapshot replaced,
\* on the screen of c1, an edit of c1 that was not flushed yet
SettledClientsAgreeWitness ==
    /\ \A c \in Clients : Settled(c) /\ LiveOf(cl[c], "project") # {}
    /\ "problem" \in cl["c1"].overwrote
    /\ cl["c2"].editLog # <<>>
    /\ cl["c1"].ui["problem"] # ""
    /\ cl["c1"].ui["problem"] = cl["c2"].ui["problem"]
    /\ cl["c1"].ui["problem"] = projects[PersonalId("u1")].fields["problem"]

----------------------------------------------------------------------------
(* The retried request of callGeminiAPI *)

\* C36 (the retry request equals the original request): the request a call
\* sends after a 429 carries the payload of its first request, the
\* googleSearch tool included when the call was made with useSearch = true.
RetryRepeatsRequest ==
    \A c \in Clients : \A e \in ApiCalls(c) :
        Len(e.reqs) = 2 => e.reqs[2].useSearch = e.reqs[1].useSearch

----------------------------------------------------------------------------
(* gemini-proxy: the serverless function in front of the upstream API *)

\* the requests the function can receive: the method, the configuration of
\* the deployment (GEMINI_API_KEY set; missing; missing where the global
\* Netlify is not defined either, so that reading it throws) and whether the
\* body parses as JSON
ProxyRequests ==
    [method : {"OPTIONS", "GET", "POST"},
     key : {"set", "missing", "missing-noglobal"},
     json : BOOLEAN]

\* the statuses the upstream API answers a POST with
UpstreamStatuses == {200, 400, 403, 404, 429, 500, 503}

IdleProxy ==
    [pc |-> "idle", req |-> [method |-> "", key |-> "", json |-> FALSE],
     upstream |-> <<>>]

\* the invocation answers with status st and ends
Answered(s, st, why) ==
    [s EXCEPT !.proxy = IdleProxy,
              !.proxyLog = Append(@, [req |-> s.proxy.req,
                                      upstream |-> s.proxy.upstream,
                                      status |-> st, why |-> why])]

\* a mutant of proxyEnter: the method is not checked
proxyEnterAnyMethod(s, r) ==
    LET s1 == [s EXCEPT !.proxy = [IdleProxy EXCEPT !.req = r]] IN
    IF r.key = "missing" THEN Answered(s1, 500, "no-key")
    ELSE IF r.key = "missing-noglobal" THEN Answered(s1, 500, "internal")
    ELSE [s1 EXCEPT !.proxy.pc = "readBody"]

\* the handler up to its first await: the method checks and the API key
proxyEnter(s, r) ==
    LET s1 == [s EXCEPT !.proxy = [IdleProxy EXCEPT !.req = r]] IN
    IF r.method = "OPTIONS" THEN Answered(s1, 204, "preflight")
    ELSE IF r.method # "POST" THEN Answered(s1, 405, "method")
    ELSE IF r.key = "missing" THEN Answered(s1, 500, "no-key")
    ELSE IF r.key = "missing-noglobal" THEN Answered(s1, 500, "internal")
    ELSE [s1 EXCEPT !.proxy.pc = "readBody"]

\* the handler from the upstream response on: a status that is not ok is
\* passed on, an ok response is answered with status 200
proxyRelay(s, st) ==
    LET s1 == [s EXCEPT !.proxy.upstream = Append(@, st)] IN
    IF ~(st >= 200 /\ st <= 299) THEN Answered(s1, st, "upstream-error")
    ELSE Answered(s1, 200, "ok")

\* the function is invoked with request r
ProxyInvoke(c, r) ==
    /\ cl[c].proxy.pc = "idle"
    /\ Len(cl[c].proxyLog) < MaxApiCalls
    /\ cl' = [cl EXCEPT ![c] = proxyEnter(@, r)]
    /\ UNCHANGED <<projects, members, invites, now, userActions>>

\* req.json() has settled: an unparsable body is answered 400, a parsed body
\* is forwarded with fetch
ProxyBodyRead(c) ==
    /\ cl[c].proxy.pc = "readBody"
    /\ cl' = [cl EXCEPT ![c] =
                IF ~@.proxy.req.json THEN Answered(@, 400, "bad-json")
                ELSE [@ EXCEPT !.proxy.pc = "upstream"]]
    /\ UNCHANGED <<projects, members, invites, now, userActions>>

\* the upstream API answers with status st
UpstreamResponse(c, st) ==
    /\ cl[c].proxy.pc = "upstream"
    /\ cl' = [cl EXCEPT ![c] = proxyRelay(@, st)]
    /\ UNCHANGED <<projects, members, invites, now, userActions>>

\* the upstream API is not reached: fetch rejects
UpstreamUnreachable(c) ==
    /\ cl[c].proxy.pc = "upstream"
    /\ cl' = [cl EXCEPT ![c] =
                Answered([@ EXCEPT !.proxy.upstream = Append(@, 0)], 500, "network")]
    /\ UNCHANGED <<projects, members, invites, now, userActions>>

ProxyNext ==
    \/ \E r \in ProxyRequests : ProxyInvoke("c1", r)
    \/ ProxyBodyRead("c1")
    \/ \E st \in UpstreamStatuses : UpstreamResponse("c1", st)
    \/ UpstreamUnreachable("c1")

ProxySpec == SyncInit /\ [][ProxyNext]_vars

\* the request of the invocation in progress has been forwarded
Forwarding(c) == cl[c].proxy.pc = "upstream"

\* request r is well-formed: a POST to a deployment with the key, with a
\* body that parses
WellFormed(r) == r.method = "POST" /\ r.key = "set" /\ r.json

\* C37 (the proxy contacts the upstream API only for well-formed requests):
\* a request is forwarded only if it is a POST, the key is configured and the
\* body parses; any other request is answered 204 (OPTIONS), 405 (another
\* method), 500 (no key) or 400 (unparsable body) without an upstream call;
\* and an upstream status that is not 2xx is the status of the answer.
ProxyForwardsWellFormedOnly ==
    \A c \in Clients :
        /\ Forwarding(c) => WellFormed(cl[c].proxy.req)
        /\ \A i \in 1..Len(cl[c].proxyLog) :
             LET e == cl[c].proxyLog[i] IN
             /\ e.upstream # <<>> => WellFormed(e.req)
             /\ Len(e.upstream) <= 1
             /\ ~WellFormed(e.req)
                => /\ e.upstream = <<>>
                   /\ e.status =
                        IF e.req.method = "OPTIONS" THEN 204
                        ELSE IF e.req.method # "POST" THEN 405
                        ELSE IF e.req.key # "set" THEN 500
                        ELSE 400
             /\ (e.upstream # <<>> /\ e.upstream[1] # 0
                    /\ ~(e.upstream[1] >= 200 /\ e.upstream[1] <= 299))
                => e.status = e.upstream[1]

\* a POST with an unparsable body was answered 400 without an upstream call,
\* and a well-formed request was forwarded and the upstream 429 passed on
ProxyForwardsWellFormedOnlyWitness ==
    /\ Len(cl["c1"].proxyLog) = 2
    /\ cl["c1"].proxyLog[1].req = [method |-> "POST", key |-> "set", json |-> FALSE]
    /\ cl["c1"].proxyLog[1].status = 400
    /\ cl["c1"].proxyLog[1].upstream = <<>>
    /\ WellFormed(cl["c1"].proxyLog[2].req)
    /\ cl["c1"].proxyLog[2].upstream = <<429>>
    /\ cl["c1"].proxyLog[2].status = 429

----------------------------------------------------------------------------
(* The throttle wrapper *)

\* the input listener with both throttled saves and their trailing timers, in
\* a signed-in or a guest session; a timer that is due fires, and time passes
ThrottleSpec ==
    /\ InputInit
    /\ [][InputNext]_vars
    /\ WF_vars(FirestoreTimerFire("c1"))
    /\ WF_vars(LocalTimerFire("c1"))
    /\ WF_vars(Tick)

\* the last instant of the clock
LastTime == StartTime + MaxTicks * TickMs

SignedInWithProject(s) ==
    s.currentUser # Null /\ s.projectDocRef # Null /\ s.activeProjectId # Null

\* the input event of this step called throttledFirestoreSave / throttledLocalSave
CallsRemoteSave(c) ==
    InputEventStep(c) /\ ~cl[c].isApplyingRemoteData /\ SignedInWithProject(cl[c])
CallsLocalSave(c) ==
    InputEventStep(c) /\ ~cl[c].isApplyingRemoteData /\ ~SignedInWithProject(cl[c])

LastEdit(s) == s.editLog[Len(s.editLog)]
LastSent(s) == s.sent[Len(s.sent)]

\* this step ran persistRemoteUpdates and the update it issued carries the
\* edit of this step
FlushedThisEdit(c) ==
    /\ Len(cl'[c].sent) = Len(cl[c].sent) + 1
    /\ LastEdit(cl'[c]).f \in DOMAIN LastSent(cl'[c]).updates
    /\ LastSent(cl'[c]).updates[LastEdit(cl'[c]).f] = LastEdit(cl'[c]).v

\* this step ran saveLocalData and the stored values carry the edit of this step
SavedThisEdit(c) ==
    /\ storageKey(cl'[c]) \in DOMAIN cl'[c].lsData
    /\ cl'[c].lsData[storageKey(cl'[c])][LastEdit(cl'[c]).f] = LastEdit(cl'[c]).v

\* C38 (the throttle wrapper never strands a call): a call of a throttled
\* function either runs the wrapped function in the same step, which then sees
\* the edit of the call, or leaves the trailing timer armed, due no later than
\* the wait after the call, with the edit still to be saved; an armed timer is
\* given up only by the step in which it fires, which runs the wrapped function
\* on everything buffered (remote) or on the values on screen (local), or by a
\* later call that arms its own timer in its place; no edit is waiting in the
\* buffer, and no guest edit is unsaved, without an armed timer; and, timers
\* firing when due, what waits behind an armed timer that falls due is flushed
\* (remote) or saved (local).
ThrottleNeverStrands ==
    /\ [](\A c \in Clients :
            /\ cl[c].pendingRemoteUpdates # EmptyUpdates => cl[c].fsTimer # NoTimer
            /\ (/\ cl[c].currentUser = Null /\ ~cl[c].isApplyingRemoteData
                /\ cl[c].editLog # <<>> /\ cl[c].lsTimer = NoTimer)
               => /\ storageKey(cl[c]) \in DOMAIN cl[c].lsData
                  /\ cl[c].lsData[storageKey(cl[c])] = cl[c].ui)
    /\ [][\A c \in Clients :
            /\ CallsRemoteSave(c)
               => \/ FlushedThisEdit(c)
                  \/ /\ cl'[c].fsTimer # NoTimer
                     /\ cl'[c].fsTimer <= now + RemoteWait
                     /\ LastEdit(cl'[c]).f \in DOMAIN cl'[c].pendingRemoteUpdates
                     /\ cl'[c].pendingRemoteUpdates[LastEdit(cl'[c]).f]
                            = LastEdit(cl'[c]).v
            /\ CallsLocalSave(c)
               => \/ SavedThisEdit(c)
                  \/ /\ cl'[c].lsTimer # NoTimer
                     /\ cl'[c].lsTimer <= now + LocalWait
                     /\ cl'[c].ui[LastEdit(cl'[c]).f] = LastEdit(cl'[c]).v
            /\ (cl[c].fsTimer # NoTimer /\ cl'[c].fsTimer # cl[c].fsTimer)
               => IF cl'[c].fsTimer # NoTimer THEN CallsRemoteSave(c)
                  ELSE /\ now >= cl[c].fsTimer
                       /\ cl'[c].pendingRemoteUpdates = EmptyUpdates
                       /\ cl[c].pendingRemoteUpdates # EmptyUpdates
                          => /\ Len(cl'[c].sent) = Len(cl[c].sent) + 1
                             /\ LastSent(cl'[c]).updates = cl[c].pendingRemoteUpdates
            /\ (cl[c].lsTimer # NoTimer /\ cl'[c].lsTimer # cl[c].lsTimer)
               => IF cl'[c].lsTimer # NoTimer THEN CallsLocalSave(c)
                  ELSE /\ now >= cl[c].lsTimer
                       /\ storageKey(cl[c]) \in DOMAIN cl'[c].lsData
                       /\ cl'[c].lsData[storageKey(cl[c])] = cl[c].ui]_vars
    /\ \A c \in Clients :
            /\ (/\ cl[c].pendingRemoteUpdates # EmptyUpdates
                /\ cl[c].fsTimer # NoTimer /\ cl[c].fsTimer <= LastTime)
                   ~> (cl[c].pendingRemoteUpdates = EmptyUpdates)
            /\ (/\ cl[c].currentUser = Null /\ ~cl[c].isApplyingRemoteData
                /\ cl[c].lsTimer # NoTimer /\ cl[c].lsTimer <= LastTime)
                   ~> (/\ storageKey(cl[c]) \in DOMAIN cl[c].lsData
                       /\ cl[c].lsData[storageKey(cl[c])] = cl[c].ui)

\* the last edit of a burst, made inside the window, has been sent by the
\* flush the trailing timer ran, later than the edit
ThrottleNeverStrandsWitness ==
    \E c \in Clients :
        /\ Len(cl[c].editLog) >= 2
        /\ cl[c].sent # <<>>
        /\ cl[c].fsTimer = NoTimer
        /\ LastEdit(cl[c]).at < cl[c].fsLast
        /\ LastEdit(cl[c]).f \in DOMAIN LastSent(cl[c]).updates
        /\ LastSent(cl[c]).updates[LastEdit(cl[c]).f] = LastEdit(cl[c]).v

====
